---- MODULE Spec2Model ----
(***************************************************************************)
(* nomad_drain: a library (Vault client, Nomad client, drain monitor) and  *)
(* a Lambda handler that retires the Nomad node of a terminating EC2       *)
(* instance.  The model follows one call from its caller to its return:    *)
(* either one run of lambda_handler, or one direct call of a public        *)
(* function of nomad::Client.  Every HTTP exchange is one step: the        *)
(* request is appended to reqs and the answer of the remote side is a      *)
(* nondeterministic choice.                                                *)
(***************************************************************************)
EXTENDS Integers, Sequences, FiniteSets, TLC

\* ------------------------------------------------------------------ bounds
MaxNodes == 2
MaxFetches == 3
MaxIndex == 1

\* --------------------------------------------------------------- constants
\* `None => Duration::from_secs(300)` of monitor_node_drain
DefaultWaitSecs == 300
HandlerDrainDeadline == 600
DefaultDrainDeadline == 3600
ClientTimeoutSecs == 360

\* ----------------------------------------------------------------- options
None == <<>>
Some(x) == <<x>>
IsSome(o) == o # <<>>
Unwrap(o) == o[1]

Ok(v) == [ok |-> TRUE, v |-> v]
Err(kind, arg) == [ok |-> FALSE, e |-> [kind |-> kind, arg |-> arg]]

\* std::time::Duration, in milliseconds
from_secs(s) == s * 1000
as_secs(d) == d \div 1000

\* ------------------------------------------------------------------ inputs
NodeIds == {"n1", "n2"}
InstanceIds == {"i-1", "i-2"}
\* The instance the trigger event of the handler names
EventInstanceIds == {"i-1"}
NodeStatuses == {"Initializing", "Ready", "Down"}
Strategies == {"S1", "S2"}
Indexes == 0..MaxIndex
WaitTimeouts == {None, Some(1500), Some(from_secs(400))}
DrainSpecs == {None, Some([deadline |-> 60, ignore_system_jobs |-> TRUE])}
Transitions == {"InstanceLaunching", "InstanceTerminating"}
OptStr(s) == {None, Some(s)}

\* AWS credentials: long-lived ones, and temporary ones with a session token
AwsCredentials ==
    {[key |-> "AKIA1", secret |-> "secret-1", token |-> None],
     [key |-> "ASIA2", secret |-> "secret-2", token |-> Some("session-2")]}
\* The anti-replay header value a caller may give: none, empty, or a value
HeaderValues == {None, Some(""), Some("vault.example.com")}
\* The rusoto Region a caller may give: none, a named AWS region, or a
\* Region::Custom with its own endpoint
Regions ==
    {None,
     Some([kind |-> "named", name |-> "us-east-1", endpoint |-> ""]),
     Some([kind |-> "named", name |-> "ap-southeast-1", endpoint |-> ""]),
     Some([kind |-> "custom", name |-> "eu-west-1", endpoint |-> "sts.example.test"])}
NoPayloadArgs == None

Configs ==
    [use_nomad_token : BOOLEAN,
     nomad_token : OptStr("nomad-token-cfg"),
     vault_token : OptStr("vault-token-cfg"),
     vault_address : OptStr("http://vault"),
     auth_path : OptStr("aws"),
     auth_role : OptStr("default"),
     auth_header_value : HeaderValues,
     nomad_path : OptStr("nomad"),
     nomad_role : OptStr("drainer")]

NoConfig == None
NoNode == [id |-> "", instance |-> None, status |-> "Ready", drain_strategy |-> None]
NoBlocking == [index |-> 0, data |-> NoNode]
NoEvent == [instance_id |-> "", lifecycle_transition |-> "InstanceTerminating"]
NoResult == [ok |-> FALSE, e |-> [kind |-> "Pending", arg |-> ""]]

\* The X-Nomad-Index response header: absent, present but not a number, or a
\* number.
HeaderVals ==
    {[present |-> FALSE, numeric |-> FALSE, value |-> 0],
     [present |-> TRUE, numeric |-> FALSE, value |-> 0]}
    \cup {[present |-> TRUE, numeric |-> TRUE, value |-> i] : i \in Indexes}

\* The scheduler's nodes as the lookup sees them: a listing of at most
\* MaxNodes nodes, each with its status and the
\* unique.platform.aws.instance-id attribute of its full details.  Node ids
\* are distinct; the k-th listed node is called NodeName[k].
NodeName == <<"n1", "n2", "n3", "n4">>
InstanceAttrs == {None} \cup {Some(i) : i \in InstanceIds}
Clusters ==
    UNION {{[k \in 1..n |-> [id |-> NodeName[k], status |-> st[k], instance |-> at[k]]] :
                st \in [1..n -> NodeStatuses], at \in [1..n -> InstanceAttrs]} :
            n \in 0..MaxNodes}

VARIABLES
    entry,            \* the function the caller invoked
    pc,               \* position in the running call
    result,           \* what the call returned
    event,            \* the raw trigger event handed to the handler
    config,           \* Config loaded from the environment
    vault_client,     \* vault::Client of the handler
    client,           \* nomad::Client
    asg_event,        \* AsgEventDetails of the handler
    instance_id,      \* argument of find_node_by_instance_id
    cluster,          \* the scheduler's nodes during the lookup
    pending,          \* the Ready nodes the lookup has not fetched yet
    node,             \* the handler's node (result of the lookup)
    node_id,          \* argument of eligibility / drain / monitor
    monitor,          \* argument of set_node_drain
    drain_spec,       \* argument of set_node_drain
    payload_args,     \* arguments of VaultAwsAuthIamPayload::new
    build_args,       \* arguments of build_nodes_request / build_node_details_request
    wait_timeout,     \* monitor_node_drain: the resolved wait_timeout
    wait_index,       \* monitor_node_drain: wait_index
    mon_node,         \* monitor_node_drain: node
    strategy,         \* monitor_node_drain: strategy
    strategy_changed, \* monitor_node_drain: strategy_changed
    elapsed,          \* time spent in long-polls that ran their full wait
    mon_result,       \* what monitor_node_drain returned
    request,          \* the latest request sent
    response,         \* the answer to the latest request
    reqs,             \* the exchanges so far: step, operation, node, accepted
    log               \* the lines the latest step wrote to the log sink

callvars == <<entry, event, instance_id, node_id, monitor, drain_spec, payload_args,
             build_args>>
handlervars == <<config, vault_client, asg_event, node>>
findvars == <<cluster, pending>>
monvars == <<wait_timeout, wait_index, mon_node, strategy, strategy_changed, elapsed,
             mon_result>>
wirevars == <<request, response, reqs>>
vars == <<pc, result, client, log, wirevars, callvars, handlervars, findvars, monvars>>

\* A request as the remote side receives it, with the step of the call that
\* sent it.
Req(step, op, nid, index, wait, body) ==
    [step |-> step, op |-> op, node |-> nid, index |-> index, wait |-> wait,
     body |-> body, header |-> None, method |-> "", url |-> ""]

NoRequest == Req("", "", "", None, None, None)

NoResponse == [outcome |-> ""]

\* The client sends req and the remote side answers http: they are the latest
\* request and answer, and the exchange is recorded in reqs with ok, whether
\* the call that sent the request accepted the answer, and draining, whether
\* the answer was a node with a drain strategy.
Send(req, http, ok) ==
    /\ request' = req
    /\ response' = http
    /\ reqs' = Append(reqs, [step |-> req.step, op |-> req.op, node |-> req.node,
                             ok |-> ok,
                             draining |-> /\ req.op = "node_details"
                                          /\ http.outcome = "ok"
                                          /\ IsSome(http.body.drain_strategy)])

Init ==
    /\ entry = "none"
    /\ pc = "idle"
    /\ result = NoResult
    /\ event = [parses |-> TRUE, detail |-> NoEvent]
    /\ config = NoConfig
    /\ vault_client = None
    /\ client = None
    /\ asg_event = NoEvent
    /\ instance_id = ""
    /\ cluster = <<>>
    /\ pending = <<>>
    /\ node = NoBlocking
    /\ node_id = ""
    /\ monitor = FALSE
    /\ drain_spec = None
    /\ payload_args = NoPayloadArgs
    /\ build_args = None
    /\ wait_timeout = 0
    /\ wait_index = None
    /\ mon_node = NoBlocking
    /\ strategy = None
    /\ strategy_changed = FALSE
    /\ elapsed = 0
    /\ mon_result = NoResult
    /\ request = NoRequest
    /\ response = NoResponse
    /\ reqs = <<>>
    /\ log = <<>>

\* `?` on an Err: the running call returns the error to the caller.
Fail(r) ==
    /\ pc' = "returned"
    /\ result' = r


\* ------------------------------------------------------------ HTTP plumbing
\* What the remote side can do with a request whose answer is a JSON body:
\* the transport fails, the body does not parse, or the body parses.
HttpFail == {"transport", "parse"}

\* vault::Client::execute_request / nomad::Client::execute_request
execute_request(http) ==
    IF http.outcome = "transport" THEN Err("ReqwestError", "")
    ELSE IF http.outcome = "parse" THEN Err("ParseError", "")
    ELSE Ok(http.body)

\* make_indexed_response, were a missing X-Nomad-Index header an error
make_indexed_response_AbsentIsError(header, data) ==
    IF ~header.present \/ ~header.numeric THEN Err("ParseIntError", "")
    ELSE Ok([index |-> header.value, data |-> data])

\* nomad::Client::make_indexed_response
make_indexed_response(header, data) ==
    IF ~header.present THEN Ok([index |-> 0, data |-> data])
    ELSE IF ~header.numeric THEN Err("ParseIntError", "")
    ELSE Ok([index |-> header.value, data |-> data])

\* nomad::Client::execute_indexed_request
execute_indexed_request(http) ==
    IF http.outcome = "transport" THEN Err("ReqwestError", "")
    ELSE IF http.outcome = "parse" THEN Err("ParseError", "")
    ELSE make_indexed_response(http.header, http.body)

\* ------------------------------------------------------------------ logging
\* A line written to the log sink: its level, its format string, and the
\* text of each value rendered into it.
Line(level, msg, args) == [level |-> level, msg |-> msg, args |-> args]

\* Display and Debug of Secret, were they to show the content
SecretFmt_ShowsContent(s) == s

\* Display and Debug of Secret
SecretFmt(s) == "***"

\* Deref / AsRef<str> of Secret
SecretDeref(s) == s

\* `{:?}` of an Option<Secret> and of an Option<String>
FmtOptSecret(o) == IF IsSome(o) THEN SecretFmt(Unwrap(o)) ELSE "None"
FmtOptStr(o) == IF IsSome(o) THEN Unwrap(o) ELSE "None"
FmtOptNum(o) == IF IsSome(o) THEN ToString(Unwrap(o)) ELSE "None"

\* `{:#?}` of Config
DebugConfig(c) ==
    <<ToString(c.use_nomad_token), FmtOptSecret(c.nomad_token),
      FmtOptSecret(c.vault_token), FmtOptStr(c.vault_address), FmtOptStr(c.auth_path),
      FmtOptStr(c.auth_role), FmtOptStr(c.auth_header_value), FmtOptStr(c.nomad_path),
      FmtOptStr(c.nomad_role)>>

\* `{:#?}` of a reqwest::Request: method and URL (here the operation, the
\* node and the query) and the headers with their values.
DebugRequest(req) ==
    <<req.op, req.node, FmtOptNum(req.index), FmtOptNum(req.wait)>>
    \o (IF IsSome(req.header)
        THEN <<Unwrap(req.header).name, Unwrap(req.header).value>>
        ELSE <<>>)

\* The text of a Vault response body: every string of the envelope as the
\* server wrote it.
VaultBodyText(r) ==
    r.errors
    \o (IF IsSome(r.auth) THEN <<Unwrap(r.auth)>> ELSE <<>>)
    \o (IF IsSome(r.data)
        THEN LET m == Unwrap(r.data) IN
             (IF "accessor_id" \in DOMAIN m THEN <<m["accessor_id"]>> ELSE <<>>)
             \o (IF "secret_id" \in DOMAIN m THEN <<m["secret_id"]>> ELSE <<>>)
        ELSE <<>>)

\* `{:#?}` of vault::Response: client_token is a Secret, the data map is a
\* HashMap<String, String>.
DebugVaultResponse(r) ==
    r.errors
    \o (IF IsSome(r.auth) THEN <<SecretFmt(Unwrap(r.auth))>> ELSE <<>>)
    \o (IF IsSome(r.data)
        THEN LET m == Unwrap(r.data) IN
             (IF "accessor_id" \in DOMAIN m THEN <<m["accessor_id"]>> ELSE <<>>)
             \o (IF "secret_id" \in DOMAIN m THEN <<m["secret_id"]>> ELSE <<>>)
        ELSE <<>>)

\* The debug! lines of vault::Client::execute_request, up to the `?` that
\* returns.
VaultWireLog(req, http) ==
    <<Line("debug", "Executing request: {:#?}", DebugRequest(req))>>
    \o (IF http.outcome = "transport" THEN <<>>
        ELSE <<Line("debug", "Response received: {:#?}", <<>>),
               Line("debug", "Response body: {}",
                    IF http.outcome = "parse" THEN <<"not json">>
                    ELSE VaultBodyText(http.body))>>)
    \o (IF http.outcome = "ok"
        THEN <<Line("debug", "Deserialized body: {:#?}", DebugVaultResponse(http.body))>>
        ELSE <<>>)

\* The text of a scheduler response body, which is also what `{:#?}` of the
\* deserialized value shows.
NomadBodyText(op, body) ==
    IF op = "nodes" THEN [i \in DOMAIN body |-> body[i].id]
    ELSE IF op = "node_details"
    THEN <<body.id, body.status, FmtOptStr(body.instance), FmtOptStr(body.drain_strategy)>>
    ELSE <<body>>

\* The debug! lines of nomad::Client::execute_request and
\* execute_indexed_request, up to the `?` that returns.
NomadWireLog(req, http) ==
    <<Line("debug", "Making request: {:#?}", DebugRequest(req))>>
    \o (IF http.outcome = "transport" THEN <<>>
        ELSE <<Line("debug", "Received response: {:#?}", <<>>),
               Line("debug", "Response body: {}",
                    IF http.outcome = "parse" THEN <<"not json">>
                    ELSE NomadBodyText(req.op, http.body))>>)
    \o (IF http.outcome = "ok"
        THEN <<Line("debug", "Deserialized Details: {:#?}",
                    NomadBodyText(req.op, http.body))>>
        ELSE <<>>)

\* `{}` of an error: its variant and the text it carries
DisplayError(e) == <<e.kind, e.arg>>

\* What a step writes to the log: its own lines and, when the step ends the
\* handler with an error, the error! line of lambda_wrapper.
Logged(lines) ==
    log' = lines \o (IF entry = "lambda_handler" /\ pc' = "returned" /\ ~result'.ok
                     THEN <<Line("error", "{}", DisplayError(result'.e))>>
                     ELSE <<>>)

\* ----------------------------------------------------------------- callers
\* The Lambda runtime invokes lambda_handler with a trigger event.
InvokeHandler ==
    /\ pc = "idle"
    /\ \E p \in BOOLEAN, i \in EventInstanceIds, t \in Transitions :
        event' = [parses |-> p,
                  detail |-> IF p THEN [instance_id |-> i, lifecycle_transition |-> t]
                             ELSE NoEvent]
    /\ entry' = "lambda_handler"
    /\ pc' = "from_environment"
    /\ UNCHANGED <<result, client, log, wirevars, instance_id, node_id, monitor, drain_spec,
                   payload_args, build_args, handlervars, findvars, monvars>>

\* nomad::Client::new with the default HTTP client and its timeout
\* (ClientBuilder::build is taken to succeed).
NomadClientNew(token) ==
    Some([address |-> "http://nomad", token |-> token,
          timeout |-> from_secs(ClientTimeoutSecs)])

\* A library user calls find_node_by_instance_id on a client of theirs.
CallFindNode ==
    /\ pc = "idle"
    /\ \E t \in OptStr("nomad-token-usr"), i \in InstanceIds :
        /\ client' = NomadClientNew(t)
        /\ instance_id' = i
    /\ entry' = "find_node_by_instance_id"
    /\ pc' = "nodes"
    /\ UNCHANGED <<result, log, wirevars, event, node_id, monitor, drain_spec,
                   payload_args, build_args, handlervars, findvars, monvars>>

\* A library user calls set_node_drain on a client of theirs.
CallSetNodeDrain ==
    /\ pc = "idle"
    /\ \E t \in OptStr("nomad-token-usr"), n \in NodeIds, m \in BOOLEAN, d \in DrainSpecs :
        /\ client' = NomadClientNew(t)
        /\ node_id' = n
        /\ monitor' = m
        /\ drain_spec' = d
    /\ entry' = "set_node_drain"
    /\ pc' = "set_node_drain"
    /\ UNCHANGED <<result, log, wirevars, event, instance_id, payload_args, build_args,
                   handlervars, findvars, monvars>>

\* The info! line of monitor_node_drain before its loop
MonitorEnterLog(id) == <<Line("info", "Monitoring drain for Node ID {}", <<id>>)>>

\* The first lines of monitor_node_drain: the wait_timeout default and the
\* initial values of the loop's variables.
MonitorEnter(wt) ==
    /\ wait_timeout' = IF IsSome(wt) THEN Unwrap(wt) ELSE from_secs(DefaultWaitSecs)
    /\ wait_index' = None
    /\ strategy' = None
    /\ strategy_changed' = FALSE
    /\ pc' = "monitor_node_drain"

\* A library user calls monitor_node_drain on a client of theirs.
CallMonitor ==
    /\ pc = "idle"
    /\ \E t \in OptStr("nomad-token-usr"), n \in NodeIds, wt \in WaitTimeouts :
        /\ client' = NomadClientNew(t)
        /\ node_id' = n
        /\ MonitorEnter(wt)
        /\ log' = MonitorEnterLog(n)
    /\ entry' = "monitor_node_drain"
    /\ UNCHANGED <<result, wirevars, event, instance_id, monitor, drain_spec, payload_args,
                   build_args, handlervars, findvars, mon_node, elapsed, mon_result>>

\* --------------------------------------------- handler: scheduler token
\* Config::from_environment: the environment decodes into a Config or not.
FromEnvironment ==
    /\ pc = "from_environment"
    /\ \/ /\ Fail(Err("ConfigurationDecodingError", ""))
          /\ UNCHANGED config
          /\ Logged(<<>>)
       \/ /\ \E c \in Configs : config' = Some(c)
          /\ pc' = "new_nomad_client"
          /\ UNCHANGED result
          /\ Logged(<<Line("info", "Configuration loaded: {:#?}",
                           DebugConfig(Unwrap(config')))>>)
    /\ UNCHANGED <<client, wirevars, callvars, vault_client, asg_event, node, findvars, monvars>>

\* The handler has its nomad::Client: Config is not read again.
ClientBuilt(token) ==
    /\ client' = NomadClientNew(token)
    /\ config' = NoConfig
    /\ pc' = "parse_event"
    /\ UNCHANGED result

\* AfterVaultClient, were a missing nomad_path reported as nomad_role
AfterVaultClient_NamesRole(c) ==
    IF ~IsSome(c.nomad_path) \/ ~IsSome(c.nomad_role)
    THEN Fail(Err("MissingConfiguration", "nomad_role"))
    ELSE pc' = "get_nomad_token" /\ UNCHANGED result

\* Config::get_nomad_token after get_vault_client returned: nomad_path and
\* nomad_role are looked up, then the token request is due.
AfterVaultClient(c) ==
    IF ~IsSome(c.nomad_path) THEN Fail(Err("MissingConfiguration", "nomad_path"))
    ELSE IF ~IsSome(c.nomad_role) THEN Fail(Err("MissingConfiguration", "nomad_role"))
    ELSE pc' = "get_nomad_token" /\ UNCHANGED result

\* The info! lines of new_nomad_client, get_nomad_token and get_vault_client
\* down to the first call that leaves the process.
NewNomadClientLog(c) ==
    <<Line("info", "Building Nomad Client", <<>>)>>
    \o (IF ~c.use_nomad_token THEN <<Line("info", "No Nomad token in use", <<>>)>>
        ELSE <<Line("info", "Using Nomad token", <<>>)>>
             \o (IF IsSome(c.nomad_token) THEN <<>>
                 ELSE <<Line("info", "No Nomad Token configured. Retrieving from Vault",
                             <<>>)>>
                      \o (IF IsSome(c.vault_address) /\ ~IsSome(c.vault_token)
                          THEN <<Line("info",
                                      "No Vault Token configured. Using AWS Credentials to retrieve from Vault",
                                      <<>>)>>
                          ELSE <<>>)))

\* Config::new_nomad_client down to the first call that leaves the process.
NewNomadClient ==
    /\ pc = "new_nomad_client"
    /\ LET c == Unwrap(config) IN
        IF ~c.use_nomad_token THEN
            ClientBuilt(None) /\ UNCHANGED vault_client
        ELSE IF IsSome(c.nomad_token) THEN
            ClientBuilt(c.nomad_token) /\ UNCHANGED vault_client
        ELSE IF ~IsSome(c.vault_address) THEN
            Fail(Err("MissingConfiguration", "vault_address"))
            /\ UNCHANGED <<client, config, vault_client>>
        ELSE IF IsSome(c.vault_token) THEN
            /\ vault_client' = Some([address |-> Unwrap(c.vault_address),
                                     token |-> Unwrap(c.vault_token)])
            /\ AfterVaultClient(c)
            /\ UNCHANGED <<client, config>>
        ELSE IF ~IsSome(c.auth_path) THEN
            Fail(Err("MissingConfiguration", "auth_path"))
            /\ UNCHANGED <<client, config, vault_client>>
        ELSE IF ~IsSome(c.auth_role) THEN
            Fail(Err("MissingConfiguration", "auth_role"))
            /\ UNCHANGED <<client, config, vault_client>>
        ELSE
            /\ pc' = "get_aws_credentials"
            /\ UNCHANGED <<result, client, config, vault_client>>
    /\ Logged(NewNomadClientLog(Unwrap(config)))
    /\ UNCHANGED <<wirevars, callvars, asg_event, node, findvars, monvars>>

\* nomad_drain::get_aws_credentials: the credential chain yields credentials
\* or is exhausted.  With credentials, get_vault_client calls login_to_vault
\* with them, the configured auth_header_value and no region.
GetAwsCredentials ==
    /\ pc = "get_aws_credentials"
    /\ \/ Fail(Err("CredentialsError", "")) /\ UNCHANGED payload_args
       \/ /\ \E cr \in AwsCredentials :
               payload_args' = Some([credentials |-> cr,
                                     header_value |-> Unwrap(config).auth_header_value,
                                     region |-> None])
          /\ pc' = "login_to_vault"
          /\ UNCHANGED result
    /\ Logged(<<>>)
    /\ UNCHANGED <<client, wirevars, entry, event, instance_id, node_id, monitor,
                   drain_spec, build_args, handlervars, findvars, monvars>>


\* ----------------------------------------------------- AWS identity payload
IAM_SERVER_ID_HEADER == "X-Vault-AWS-IAM-Server-ID"

\* str::to_ascii_lowercase, on the header names in use (the others are lower
\* case already)
to_ascii_lowercase(s) ==
    IF s = "X-Vault-AWS-IAM-Server-ID" THEN "x-vault-aws-iam-server-id" ELSE s

\* base64::encode: the encoded text of s, which is not s
base64_encode(s) == [base64 |-> s]

\* serde_urlencoded::to_string of the Params map, whose keys are put in
\* their sorted order
RECURSIVE serde_urlencoded(_)
serde_urlencoded(params) ==
    IF params = <<>> THEN ""
    ELSE LET pair == Head(params)[1] \o "=" \o Head(params)[2] IN
         IF Tail(params) = <<>> THEN pair
         ELSE pair \o "&" \o serde_urlencoded(Tail(params))

\* GlobalRegion, were the fallback the regional us-east-1 endpoint
GlobalRegion_UsEast1 == [kind |-> "named", name |-> "us-east-1", endpoint |-> ""]

\* The Region used when the caller gives none: a custom region whose endpoint
\* is the global STS host
GlobalRegion == [kind |-> "custom", name |-> "us-east-1", endpoint |-> "sts.amazonaws.com"]

\* SignedRequest::new
SignedRequestNew(method, service, region, path) ==
    [method |-> method, service |-> service, region |-> region, path |-> path,
     payload |-> None, headers |-> <<>>]

\* SignedRequest::add_header: the name is lower-cased, the value appended to
\* the values of that name
add_header(req, key, value) ==
    LET k == to_ascii_lowercase(key) IN
    [req EXCEPT !.headers =
        (k :> (IF k \in DOMAIN req.headers THEN Append(req.headers[k], value)
               ELSE <<value>>)) @@ req.headers]

\* SignedRequest::hostname: a custom region's endpoint, else the regional
\* host of the service
hostname(req) ==
    IF req.region.kind = "custom" THEN req.region.endpoint
    ELSE req.service \o "." \o req.region.name \o ".amazonaws.com"

\* SignedRequest::sign_with_plus: the host, date and content hash headers
\* (and the session token, if any) are added, then the authorization header,
\* whose signature covers every header the request has by then.
sign_with_plus(req, credentials) ==
    LET r1 == add_header(req, "host", hostname(req))
        r2 == add_header(r1, "x-amz-date", "20190101T000000Z")
        r3 == add_header(r2, "x-amz-content-sha256", "sha256")
        r4 == IF IsSome(credentials.token)
              THEN add_header(r3, "x-amz-security-token", Unwrap(credentials.token))
              ELSE r3 IN
    [r4 EXCEPT !.headers =
        ("authorization" :> <<[credential |-> credentials.key,
                               signed_headers |-> DOMAIN r4.headers,
                               signature |-> [secret |-> credentials.secret,
                                              headers |-> r4.headers,
                                              payload |-> r4.payload]]>>)
        @@ r4.headers]

\* VaultAwsAuthIamPayload::new, were the anti-replay header added after the
\* request is signed
VaultAwsAuthIamPayloadNew_SignsFirst(credentials, header_value, region) ==
    LET r0 == SignedRequestNew("POST", "sts",
                               IF IsSome(region) THEN Unwrap(region) ELSE GlobalRegion,
                               "/")
        params == <<<<"Action", "GetCallerIdentity">>, <<"Version", "2011-06-15">>>>
        r1 == [r0 EXCEPT !.payload = Some(serde_urlencoded(params))]
        r2 == add_header(r1, "content-type", "application/x-www-form-urlencoded")
        r3 == sign_with_plus(r2, credentials)
        r4 == IF IsSome(header_value) /\ Unwrap(header_value) # ""
              THEN add_header(r3, IAM_SERVER_ID_HEADER, Unwrap(header_value))
              ELSE r3
        uri == "https" \o "://" \o hostname(r4) \o r4.path IN
    [iam_http_request_method |-> "POST",
     iam_request_url |-> base64_encode(uri),
     iam_request_body |-> base64_encode(Unwrap(r4.payload)),
     iam_request_headers |-> r4.headers]

\* VaultAwsAuthIamPayload::new
VaultAwsAuthIamPayloadNew(credentials, header_value, region) ==
    LET r0 == SignedRequestNew("POST", "sts",
                               IF IsSome(region) THEN Unwrap(region) ELSE GlobalRegion,
                               "/")
        params == <<<<"Action", "GetCallerIdentity">>, <<"Version", "2011-06-15">>>>
        r1 == [r0 EXCEPT !.payload = Some(serde_urlencoded(params))]
        r2 == add_header(r1, "content-type", "application/x-www-form-urlencoded")
        r3 == IF IsSome(header_value) /\ Unwrap(header_value) # ""
              THEN add_header(r2, IAM_SERVER_ID_HEADER, Unwrap(header_value))
              ELSE r2
        r4 == sign_with_plus(r3, credentials)
        uri == "https" \o "://" \o hostname(r4) \o r4.path IN
    [iam_http_request_method |-> "POST",
     iam_request_url |-> base64_encode(uri),
     iam_request_body |-> base64_encode(Unwrap(r4.payload)),
     iam_request_headers |-> r4.headers]

\* The lines of VaultAwsAuthIamPayload::new
PayloadNewLog(region) ==
    <<Line("info", "Building Login Payload for AWS authentication to Vault", <<>>)>>
    \o (IF IsSome(region) THEN <<>>
        ELSE <<Line("debug", "No region provided: using global us-east-1 endpoint.",
                    <<>>)>>)
    \o <<Line("debug", "AWS Payload: {:#?}", <<>>)>>

\* A library user calls VaultAwsAuthIamPayload::new, which returns the
\* payload.
CallPayloadNew ==
    /\ pc = "idle"
    /\ \E cr \in AwsCredentials, hv \in HeaderValues, rg \in Regions :
        /\ payload_args' = Some([credentials |-> cr, header_value |-> hv, region |-> rg])
        /\ result' = Ok(VaultAwsAuthIamPayloadNew(cr, hv, rg))
        /\ log' = PayloadNewLog(rg)
    /\ entry' = "VaultAwsAuthIamPayload::new"
    /\ pc' = "returned"
    /\ UNCHANGED <<client, wirevars, event, instance_id, node_id, monitor, drain_spec,
                   build_args, handlervars, findvars, monvars>>

\* ------------------------------------------------------------ Vault client
RECURSIVE Join(_, _)
\* [String]::join
Join(strs, sep) ==
    IF strs = <<>> THEN ""
    ELSE IF Len(strs) = 1 THEN strs[1]
    ELSE strs[1] \o sep \o Join(Tail(strs), sep)

\* vault::Response as serde decodes it: the error envelope, or the success
\* envelope with its optional auth and data.
VaultErrorEnvelopes ==
    {[is_error |-> TRUE, errors |-> e, auth |-> None, data |-> None] :
        e \in {<<"x">>, <<"x", "y">>, <<"y", "x">>}}
VaultDataMaps ==
    {<<>>, "accessor_id" :> "accessor",
     ("accessor_id" :> "accessor") @@ ("secret_id" :> "nomad-token-vault")}
VaultSuccessEnvelopes ==
    {[is_error |-> FALSE, errors |-> <<>>, auth |-> a, data |-> d] :
        a \in OptStr("vault-token-login"),
        d \in {None} \cup {Some(m) : m \in VaultDataMaps}}
VaultResponses == VaultErrorEnvelopes \cup VaultSuccessEnvelopes
VaultHttp ==
    {[outcome |-> o, body |-> CHOOSE r \in VaultErrorEnvelopes : TRUE] : o \in HttpFail}
    \cup {[outcome |-> "ok", body |-> r] : r \in VaultResponses}

\* login_aws_iam, were a success envelope without auth taken for a login with
\* an empty token
login_aws_iam_EmptyToken(vault_address, http) ==
    LET envelope == execute_request(http) IN
    IF ~envelope.ok THEN envelope
    ELSE IF envelope.v.is_error THEN
        Err("InvalidVaultResponse", Join(envelope.v.errors, "; "))
    ELSE IF IsSome(envelope.v.auth) THEN
        Ok([address |-> vault_address, token |-> Unwrap(envelope.v.auth)])
    ELSE Ok([address |-> vault_address, token |-> ""])

\* vault::Client::login_aws_iam, from the answer to its login request
login_aws_iam(vault_address, http) ==
    LET envelope == execute_request(http) IN
    IF ~envelope.ok THEN envelope
    ELSE IF envelope.v.is_error THEN
        Err("InvalidVaultResponse", Join(envelope.v.errors, "; "))
    ELSE IF IsSome(envelope.v.auth) THEN
        Ok([address |-> vault_address, token |-> Unwrap(envelope.v.auth)])
    ELSE Err("InvalidVaultResponse", "Missing authentication data")

\* get_nomad_token, were a data map without secret_id taken for an empty token
get_nomad_token_AnyData(http) ==
    LET envelope == execute_request(http) IN
    IF ~envelope.ok THEN envelope
    ELSE IF envelope.v.is_error THEN
        Err("InvalidVaultResponse", Join(envelope.v.errors, "; "))
    ELSE IF IsSome(envelope.v.data) THEN
        IF "secret_id" \in DOMAIN Unwrap(envelope.v.data)
        THEN Ok(Unwrap(envelope.v.data)["secret_id"])
        ELSE Ok("")
    ELSE Err("InvalidVaultResponse", "Missing secrets data")

\* vault::Client::get_nomad_token, from the answer to its creds request
get_nomad_token(http) ==
    LET envelope == execute_request(http) IN
    IF ~envelope.ok THEN envelope
    ELSE IF envelope.v.is_error THEN
        Err("InvalidVaultResponse", Join(envelope.v.errors, "; "))
    ELSE IF IsSome(envelope.v.data) THEN
        IF "secret_id" \in DOMAIN Unwrap(envelope.v.data)
        THEN Ok(Unwrap(envelope.v.data)["secret_id"])
        ELSE Err("InvalidVaultResponse", "Missing Nomad token from response")
    ELSE Err("InvalidVaultResponse", "Missing secrets data")

\* The lines of VaultAwsAuthIamPayload::new (called without region) and of
\* login_aws_iam.
LoginToVaultLog(c, req, http, r) ==
    PayloadNewLog(None)
    \o <<Line("info", "Logging in to Vault with AWS Credentials at path '{}' and role '{}",
              <<Unwrap(c.auth_path), Unwrap(c.auth_role)>>)>>
    \o VaultWireLog(req, http)
    \o (IF r.ok
        THEN <<Line("info", "Vault authentication successful. Received Vault Token",
                    <<>>)>>
        ELSE <<>>)

\* nomad_drain::login_to_vault: one POST to the AWS auth mount, then back in
\* Config::get_nomad_token.
LoginToVault ==
    /\ pc = "login_to_vault"
    /\ \E http \in VaultHttp :
        LET c == Unwrap(config)
            a == Unwrap(payload_args)
            payload == VaultAwsAuthIamPayloadNew(a.credentials, a.header_value, a.region)
            r == login_aws_iam(Unwrap(c.vault_address), http) IN
        /\ Send(Req("token", "vault_login", "", None, None,
                    [role |-> Unwrap(c.auth_role), aws_payload |-> payload]),
                http, r.ok)
        /\ IF r.ok
           THEN vault_client' = Some(r.v) /\ AfterVaultClient(c)
           ELSE Fail(r) /\ UNCHANGED vault_client
        /\ Logged(LoginToVaultLog(c, request', http, r))
    /\ payload_args' = NoPayloadArgs
    /\ UNCHANGED <<client, entry, event, instance_id, node_id, monitor, drain_spec,
                   build_args, config, asg_event, node, findvars, monvars>>

\* vault::Client::build_nomad_token_request: the GET of the Nomad secrets
\* engine, with the client's token as X-Vault-Token header
build_nomad_token_request(vc) ==
    [Req("token", "vault_nomad_creds", "", None, None, None)
        EXCEPT !.header = Some([name |-> "X-Vault-Token",
                                value |-> SecretDeref(vc.token)])]

\* Config::get_nomad_token: one GET of the Nomad secrets engine, then
\* NomadClient::new.
GetNomadToken ==
    /\ pc = "get_nomad_token"
    /\ \E http \in VaultHttp :
        LET r == get_nomad_token(http) IN
        /\ Send(build_nomad_token_request(Unwrap(vault_client)), http, r.ok)
        /\ IF r.ok
           THEN ClientBuilt(Some(r.v))
           ELSE Fail(r) /\ UNCHANGED <<client, config>>
        /\ Logged(<<Line("info",
                         "Retrieving Nomad Token from Secrets engine mounted at '{}' with role '{}'",
                         <<Unwrap(Unwrap(config).nomad_path),
                           Unwrap(Unwrap(config).nomad_role)>>)>>
                  \o VaultWireLog(request', http))
    /\ UNCHANGED <<callvars, vault_client, asg_event, node, findvars, monvars>>

\* ExpectedTransition, were any lifecycle transition accepted
ExpectedTransition_Any(detail) == TRUE

\* `asg_event.lifecycle_transition != AsgLifecycleTransition::InstanceTerminating`,
\* negated
ExpectedTransition(detail) == detail.lifecycle_transition = "InstanceTerminating"

\* The info! lines of lambda_handler around the decoding of the event
ParseEventLog(ev) ==
    IF ~ev.parses THEN <<>>
    ELSE <<Line("info", "Event Details: {:#?}",
                <<ev.detail.instance_id, ev.detail.lifecycle_transition>>)>>
         \o (IF ExpectedTransition(ev.detail)
             THEN <<Line("info", "Instance ID {} is being terminated",
                         <<ev.detail.instance_id>>)>>
             ELSE <<>>)

\* lambda_handler: decode the event detail and check the transition.
ParseEvent ==
    /\ pc = "parse_event"
    /\ IF ~event.parses THEN
            Fail(Err("JsonError", "")) /\ UNCHANGED <<asg_event, instance_id>>
       ELSE IF ~ExpectedTransition(event.detail) THEN
            /\ asg_event' = event.detail
            /\ Fail(Err("UnexpectedLifecycleTransition", ""))
            /\ UNCHANGED instance_id
       ELSE /\ asg_event' = event.detail
            /\ instance_id' = event.detail.instance_id
            /\ pc' = "nodes"
            /\ UNCHANGED result
    /\ Logged(ParseEventLog(event))
    /\ UNCHANGED <<client, wirevars, entry, event, node_id, monitor, drain_spec, payload_args,
                   build_args, config, vault_client, node, findvars, monvars>>


\* ------------------------------------------------------------ Nomad client
\* add_nomad_token_header, were the header only put on the reads
add_nomad_token_header_ReadsOnly(c, req) ==
    IF IsSome(c.token) /\ req.op \in {"nodes", "node_details"}
    THEN [req EXCEPT !.header = Some([name |-> "X-Nomad-Token",
                                      value |-> Unwrap(c.token)])]
    ELSE req

\* nomad::Client::add_nomad_token_header
add_nomad_token_header(c, req) ==
    IF IsSome(c.token)
    THEN [req EXCEPT !.header = Some([name |-> "X-Nomad-Token",
                                      value |-> SecretDeref(Unwrap(c.token))])]
    ELSE req

\* `self.client.get(..)` for the reads, `self.client.post(..)` for the writes
NomadMethod(op) == IF op \in {"nodes", "node_details"} THEN "GET" ELSE "POST"

\* The `format!` of the address in the build_*_request functions
NomadAddress(c, op, nid) ==
    IF op = "nodes" THEN c.address \o "/v1/nodes"
    ELSE IF op = "node_details" THEN c.address \o "/v1/node/" \o nid
    ELSE IF op = "eligibility" THEN c.address \o "/v1/node/" \o nid \o "/eligibility"
    ELSE c.address \o "/v1/node/" \o nid \o "/drain"

\* QueryText, were wait written before index
QueryText_WaitFirst(index, wait) ==
    IF IsSome(index)
    THEN (IF IsSome(wait) THEN "?wait=" \o ToString(Unwrap(wait)) \o "s&" ELSE "?")
         \o "index=" \o ToString(Unwrap(index))
    ELSE ""

\* The query string of the URL: the pairs `.query(..)` added, in the order
\* they were added, wait as `format!("{}s", timeout.as_secs())`
QueryText(index, wait) ==
    IF IsSome(index)
    THEN "?index=" \o ToString(Unwrap(index))
         \o (IF IsSome(wait) THEN "&wait=" \o ToString(Unwrap(wait)) \o "s" ELSE "")
    ELSE ""

\* A request of the client c, as its build_*_request functions make it: the
\* method, the URL with the query it was given, the token header.
NomadReqOf(c, step, op, nid, index, wait, body) ==
    add_nomad_token_header(c,
        [Req(step, op, nid, index, wait, body)
            EXCEPT !.method = NomadMethod(op),
                   !.url = NomadAddress(c, op, nid) \o QueryText(index, wait)])

\* A request of the scheduler client the call runs on
NomadReq(step, op, nid, index, wait, body) ==
    NomadReqOf(Unwrap(client), step, op, nid, index, wait, body)

\* The answers a node read can get: a failure, or a body with the
\* X-Nomad-Index header the server chose to send.
IndexedHttp(bodies, headers) ==
    LET any == CHOOSE b \in bodies : TRUE
        unreadable == {h \in headers : h.present /\ ~h.numeric} IN
    {[outcome |-> o, body |-> any, header |-> CHOOSE h \in headers : TRUE] :
        o \in HttpFail}
    \cup {[outcome |-> "ok", body |-> any, header |-> h] : h \in unreadable}
    \cup {[outcome |-> "ok", body |-> b, header |-> h] :
            b \in bodies, h \in headers \ unreadable}

\* The headers of the answers to the lookup's requests, which are sent without
\* index and whose index is stored but never read: absent, not a number, or
\* one number.
LookupHeaders == {h \in HeaderVals : h.numeric => h.value = MaxIndex}

\* The answers a POST to the scheduler can get (NodeEligibilityResponse /
\* NodeDrainResponse carry nothing the client reads).
AckHttp == {[outcome |-> o, body |-> "ack"] : o \in HttpFail \cup {"ok"}}

\* Vec<NodesInList> of a cluster
Listing(c) == [i \in DOMAIN c |-> [id |-> c[i].id, status |-> c[i].status]]

\* Node of a cluster node
Details(n) ==
    [id |-> n.id, instance |-> n.instance, status |-> n.status, drain_strategy |-> None]

ClusterNode(c, id) == c[CHOOSE i \in DOMAIN c : c[i].id = id]

\* IsReady, were the filter `status != Down`
IsReady_NotDown(n) == n.status # "Down"

\* `.filter(|node| node.status == NodeStatus::Ready)`
IsReady(n) == n.status = "Ready"

\* The predicate of `.find(..)` in find_node_by_instance_id
FindMatches(details, wanted) ==
    IF details.ok
    THEN IF IsSome(details.v.data.instance)
         THEN Unwrap(details.v.data.instance) = wanted
         ELSE FALSE
    ELSE FALSE

\* NodeNotFound, were the error built without the instance id
NodeNotFound_NoId(wanted) == Err("NomadNodeNotFound", "")

\* `result.ok_or_else(|| crate::Error::NomadNodeNotFound { .. })`
NodeNotFound(wanted) == Err("NomadNodeNotFound", wanted)

\* FindReturn, were the handler to go on with the first node of the listing
FindReturn_FirstListed(r, c, rest) ==
    IF r.ok /\ entry = "lambda_handler"
    THEN /\ node' = r.v
         /\ node_id' = c[1].id
         /\ pc' = "set_node_eligibility"
         /\ cluster' = <<>>
         /\ pending' = <<>>
         /\ UNCHANGED result
    ELSE /\ Fail(r)
         /\ cluster' = c
         /\ pending' = rest
         /\ UNCHANGED <<node, node_id>>

\* find_node_by_instance_id returns r, with c the scheduler's nodes and rest
\* what the iterator had left.  The handler goes on with the node alone: the
\* listing is not consulted again.
FindReturn(r, c, rest) ==
    IF r.ok /\ entry = "lambda_handler"
    THEN /\ node' = r.v
         /\ node_id' = r.v.data.id
         /\ pc' = "set_node_eligibility"
         /\ cluster' = <<>>
         /\ pending' = <<>>
         /\ UNCHANGED result
    ELSE /\ Fail(r)
         /\ cluster' = c
         /\ pending' = rest
         /\ UNCHANGED <<node, node_id>>

\* The lines of find_node_by_instance_id down to the answer to nodes()
FindNodesLog(req, http) ==
    <<Line("info", "Finding Nomad Node ID for AWS Instance ID {}", <<instance_id>>),
      Line("info", "Requesting list of Nomad nodes", <<>>)>>
    \o NomadWireLog(req, http)

\* The lines of one node_details call of the lookup, and the line that
\* reports the match
FindNodeDetailsLog(req, http, details) ==
    <<Line("info", "Requesting Nomad Node {} details", <<req.node>>)>>
    \o NomadWireLog(req, http)
    \o (IF FindMatches(details, instance_id)
        THEN <<Line("info", "AWS Instance ID {} is Nomad Node ID {}",
                    <<instance_id, details.v.data.id>>)>>
        ELSE <<>>)

\* find_node_by_instance_id: self.nodes(None, None)? and the filter on Ready
FindNodes ==
    /\ pc = "nodes"
    /\ \/ \E http \in IndexedHttp({<<>>}, LookupHeaders) :
            LET nodes == execute_indexed_request(http) IN
            /\ ~nodes.ok
            /\ Send(NomadReq("find", "nodes", "", None, None, None), http, nodes.ok)
            /\ Fail(nodes)
            /\ Logged(FindNodesLog(request', http))
            /\ UNCHANGED <<node, node_id, cluster, pending>>
       \/ \E c \in Clusters : \E http \in IndexedHttp({Listing(c)}, LookupHeaders) :
            LET nodes == execute_indexed_request(http)
                ready == SelectSeq(nodes.v.data, IsReady) IN
            /\ nodes.ok
            /\ Send(NomadReq("find", "nodes", "", None, None, None), http, nodes.ok)
            /\ IF ready = <<>> THEN
                    FindReturn(NodeNotFound(instance_id), c, ready)
               ELSE /\ cluster' = c
                    /\ pending' = ready
                    /\ pc' = "node_details"
                    /\ UNCHANGED <<result, node, node_id>>
            /\ Logged(FindNodesLog(request', http))
    /\ UNCHANGED <<client, entry, event, instance_id, monitor, drain_spec, payload_args,
                   build_args, config, vault_client, asg_event, monvars>>

\* find_node_by_instance_id: the iterator yields the next Ready node, its
\* details are fetched and tested.
FindNodeDetails ==
    /\ pc = "node_details"
    /\ LET n == Head(pending)
           rest == Tail(pending) IN
       \E http \in IndexedHttp({Details(ClusterNode(cluster, n.id))},
                                LookupHeaders) :
        LET details == execute_indexed_request(http) IN
        /\ Send(NomadReq("find", "node_details", n.id, None, None, None), http,
                details.ok)
        /\ IF FindMatches(details, instance_id) THEN
                FindReturn(details, cluster, rest)
           ELSE IF rest = <<>> THEN
                FindReturn(NodeNotFound(instance_id), cluster, rest)
           ELSE /\ pending' = rest
                /\ UNCHANGED <<pc, result, node, node_id, cluster>>
        /\ Logged(FindNodeDetailsLog(request', http, details))
    /\ UNCHANGED <<client, entry, event, instance_id, monitor, drain_spec, payload_args,
                   build_args, config, vault_client, asg_event, monvars>>

\* EligibilityFails, were the result of set_node_eligibility dropped
EligibilityFails_Never(r) == FALSE

\* `?` on the result of the handler's set_node_eligibility call
EligibilityFails(r) == ~r.ok

\* lambda_handler: set_node_eligibility(node.data.id, Ineligible), then the
\* arguments of its set_node_drain call.
SetNodeEligibility ==
    /\ pc = "set_node_eligibility"
    /\ \E http \in AckHttp :
        LET r == execute_request(http) IN
        /\ Send(NomadReq("eligibility", "eligibility", node_id, None, None,
                         <<"Ineligible">>),
                http, r.ok)
        /\ IF EligibilityFails(r) THEN Fail(r) /\ UNCHANGED <<monitor, drain_spec>>
           ELSE /\ pc' = "set_node_drain"
                /\ monitor' = TRUE
                /\ drain_spec' = Some([deadline |-> HandlerDrainDeadline,
                                       ignore_system_jobs |-> FALSE])
                /\ UNCHANGED result
        /\ Logged(<<Line("info", "Setting Node ID {} to be ineligible", <<node.data.id>>),
                    Line("info", "Setting Nomad Node ID {} eligibility to {}",
                         <<node_id, "Ineligible">>)>>
                  \o NomadWireLog(request', http))
    /\ UNCHANGED <<client, entry, event, instance_id, node_id, payload_args, build_args,
                   handlervars, findvars, monvars>>

\* DrainSpec::default, were its deadline the handler's
DrainSpecDefault_HandlerDeadline ==
    [deadline |-> HandlerDrainDeadline, ignore_system_jobs |-> FALSE]

\* DrainSpec::default
DrainSpecDefault == [deadline |-> DefaultDrainDeadline, ignore_system_jobs |-> FALSE]

\* The JSON of a NodeDrainRequest: NodeID, and DrainSpec with PascalCase
\* field names
NodeDrainRequestJson(id, spec) ==
    [NodeID |-> id,
     DrainSpec |-> [Deadline |-> spec.deadline,
                    IgnoreSystemJobs |-> spec.ignore_system_jobs]]

\* DrainReturn, were the handler to drop the result of set_node_drain
DrainReturn_IgnoresError(r) ==
    IF entry = "lambda_handler"
    THEN pc' = "complete_lifecycle_action" /\ UNCHANGED result
    ELSE Fail(r)

\* set_node_drain returns r: to the library user, or to the handler, whose
\* `?` goes on to the lifecycle completion only on Ok.
DrainReturn(r) ==
    IF entry = "lambda_handler" /\ r.ok
    THEN pc' = "complete_lifecycle_action" /\ UNCHANGED result
    ELSE Fail(r)

\* MonitorReturn, were a failed fetch retried instead of returned
MonitorReturn_RetriesOnError(r) ==
    IF r.ok
    THEN mon_result' = r /\ DrainReturn(r)
    ELSE UNCHANGED <<pc, result, mon_result>>

\* monitor_node_drain returns r, which is also what set_node_drain returns
\* when it called the monitor.
MonitorReturn(r) ==
    /\ mon_result' = r
    /\ DrainReturn(r)

\* The lines of the handler before its set_node_drain call, of set_node_drain
\* and of the monitor it enters.
SetNodeDrainLog(spec, req, http, r) ==
    (IF entry = "lambda_handler"
     THEN <<Line("info", "Draining Nomad Node ID {}", <<node.data.id>>)>>
     ELSE <<>>)
    \o <<Line("info", "Draining Node ID {} with {:#?}",
              <<node_id, ToString(spec.deadline), ToString(spec.ignore_system_jobs)>>)>>
    \o NomadWireLog(req, http)
    \o (IF r.ok /\ monitor THEN MonitorEnterLog(node_id) ELSE <<>>)

\* DrainAccepted, were the response of the drain POST not examined
DrainAccepted_Always(r) == TRUE
\* the `?` on execute_request of set_node_drain: the call goes on only when
\* the drain POST was answered with success
DrainAccepted(r) == r.ok

\* set_node_drain: the drain POST, then monitor_node_drain(node_id, None)
\* when monitor is set.
SetNodeDrain ==
    /\ pc = "set_node_drain"
    /\ \E http \in AckHttp :
        LET spec == IF IsSome(drain_spec) THEN Unwrap(drain_spec) ELSE DrainSpecDefault
            r == execute_request(http) IN
        /\ Send(NomadReq("drain", "drain", node_id, None, None,
                         NodeDrainRequestJson(node_id, spec)),
                http, r.ok)
        /\ IF ~DrainAccepted(r) THEN
                Fail(r) /\ UNCHANGED <<wait_timeout, wait_index, strategy, strategy_changed>>
           ELSE IF monitor THEN
                MonitorEnter(None) /\ UNCHANGED result
           ELSE DrainReturn(Ok("unit"))
                /\ UNCHANGED <<wait_timeout, wait_index, strategy, strategy_changed>>
        /\ Logged(SetNodeDrainLog(spec, request', http, r))
    /\ UNCHANGED <<client, callvars, handlervars, findvars, mon_node, elapsed, mon_result>>

\* add_blocking_requests, were wait sent whether or not there is an index
add_blocking_requests_WaitAlone(index, timeout) ==
    [index |-> index,
     wait |-> IF IsSome(timeout) THEN Some(as_secs(Unwrap(timeout))) ELSE None]

\* nomad::Client::add_blocking_requests: the query parameters index and wait
\* of a read; wait is the number of the "{}s" text, and is only sent with an
\* index.
add_blocking_requests(index, timeout) ==
    IF IsSome(index)
    THEN [index |-> index,
          wait |-> IF IsSome(timeout) THEN Some(as_secs(Unwrap(timeout))) ELSE None]
    ELSE [index |-> None, wait |-> None]

\* build_nodes_request and build_node_details_request
build_read_request(c, op, nid, wait_index_, wait_timeout_) ==
    LET query == add_blocking_requests(wait_index_, wait_timeout_) IN
    NomadReqOf(c, "build", op, nid, query.index, query.wait, None)

\* build_nodes_request or build_node_details_request is called with a node
\* id, a wait_index and a wait_timeout, and returns the request it built;
\* nothing is sent.
CallBuildRequest ==
    /\ pc = "idle"
    /\ \E t \in OptStr("nomad-token-usr"), op \in {"nodes", "node_details"},
          n \in NodeIds, wi \in {None} \cup {Some(i) : i \in Indexes},
          wt \in WaitTimeouts :
        LET nid == IF op = "nodes" THEN "" ELSE n IN
        /\ client' = NomadClientNew(t)
        /\ build_args' = Some([op |-> op, node_id |-> nid, wait_index |-> wi,
                               wait_timeout |-> wt])
        /\ request' = build_read_request(Unwrap(client'), op, nid, wi, wt)
        /\ result' = Ok("request")
    /\ entry' = "build_request"
    /\ pc' = "returned"
    /\ UNCHANGED <<log, response, reqs, event, instance_id, node_id, monitor, drain_spec,
                   payload_args, handlervars, findvars, monvars>>

\* ------------------------------------------------------------ drain monitor
IsMonitorReq(r) == r.step = "monitor"
MonitorReqs == SelectSeq(reqs, IsMonitorReq)

\* The Nodes the scheduler can report for the monitored node.
MonitoredNodes(id) ==
    [id : {id}, instance : {None}, status : NodeStatuses,
     drain_strategy : {None} \cup {Some(st) : st \in Strategies}]

\* The answers to a fetch of the monitor.  A request without index is
\* answered at once.  A request with index and wait is a blocking query: it
\* is answered at once with whatever the node is now, or it failed, or
\* nothing changed and the server held it for the whole wait and then
\* answered with the node and index the client already has.  The client
\* sees that last answer only if its own timeout has not run out before: if
\* it has, the fetch fails in transport.
MonitorAnswers ==
    LET query == add_blocking_requests(wait_index, Some(wait_timeout)) IN
    {[http |-> h, held |-> 0] : h \in IndexedHttp(MonitoredNodes(node_id), HeaderVals)}
    \cup (IF IsSome(query.wait) /\ from_secs(Unwrap(query.wait)) < Unwrap(client).timeout
          THEN {[http |-> [outcome |-> "ok", body |-> mon_node.data,
                           header |-> [present |-> TRUE, numeric |-> TRUE,
                                       value |-> Unwrap(wait_index)]],
                 held |-> from_secs(Unwrap(query.wait))]}
          ELSE {})

\* `?` on the result of node_details in the loop
MonitorFetchFails(fetched) == ~fetched.ok

\* MonitorBreaks, were the `break` taken only once a strategy had been seen
MonitorBreaks_OnlyAfterChange(fetched) ==
    ~IsSome(fetched.data.drain_strategy) /\ strategy_changed

\* MonitorBreaks, were a Down node taken for the end of the drain
MonitorBreaks_AlsoWhenDown(fetched) ==
    ~IsSome(fetched.data.drain_strategy) \/ fetched.data.status = "Down"

\* MonitorBreaks, were a long-poll that came back without a change taken for
\* the end of the wait
MonitorBreaks_OnNoChange(fetched) ==
    \/ ~IsSome(fetched.data.drain_strategy)
    \/ IsSome(wait_index) /\ fetched.index = Unwrap(wait_index)

\* MonitorBreaks, were the loop left after its second turn at the latest
MonitorBreaks_AfterTwoTurns(fetched) ==
    ~IsSome(fetched.data.drain_strategy) \/ Len(MonitorReqs) >= 1

\* `if node.data.drain_strategy.is_none()`: the loop's only `break`
MonitorBreaks(fetched) == ~IsSome(fetched.data.drain_strategy)

\* MonitorNextIndex, were the highest index seen kept instead of the latest
MonitorNextIndex_KeepsHighest(fetched) ==
    IF IsSome(wait_index) /\ Unwrap(wait_index) > fetched.index
    THEN wait_index
    ELSE Some(fetched.index)

\* `wait_index = Some(node.index)`
MonitorNextIndex(fetched) == Some(fetched.index)

\* DrainUpdated, were every answer with a strategy reported as an update
DrainUpdated_Always(last, fetched) == TRUE

\* `if strategy != node.data.drain_strategy`
DrainUpdated(last, fetched) == last # fetched

\* DrainOutcomeLine, were every drain that ended reported as cleared
DrainOutcomeLine_AlwaysCleared(changed, id) ==
    Line("info", "Node {} has has marked all allocations for migration", <<id>>)

\* The line written before `break`: the drain cleared, or it never started
DrainOutcomeLine(changed, id) ==
    IF changed
    THEN Line("info", "Node {} has has marked all allocations for migration", <<id>>)
    ELSE Line("info", "No drain strategy set for node {}", <<id>>)

\* The lines of one turn of the monitor's loop and, when the loop is left by
\* `break`, the lines after it, the handler's included.
MonitorFetchLog(req, http, fetched) ==
    <<Line("info", "Checking if Node ID {} drain is complete", <<node_id>>),
      Line("info", "Requesting Nomad Node {} details", <<node_id>>)>>
    \o NomadWireLog(req, http)
    \o (IF MonitorFetchFails(fetched) THEN <<>>
        ELSE IF MonitorBreaks(fetched.v) THEN
            <<DrainOutcomeLine(strategy_changed, node_id),
              Line("info", "Done monitoring drain for Node ID {}", <<node_id>>)>>
            \o (IF entry = "lambda_handler"
                THEN <<Line("info", "Node ID {} Drained", <<node.data.id>>)>>
                ELSE <<>>)
        ELSE (IF fetched.v.data.status = "Down"
              THEN <<Line("warn", "Node {} down", <<node_id>>)>>
              ELSE <<>>)
             \o (IF DrainUpdated(strategy, fetched.v.data.drain_strategy)
                 THEN <<Line("info", "Node {} drain updated: {:#?}",
                             <<node_id, FmtOptStr(fetched.v.data.drain_strategy)>>)>>
                 ELSE <<>>))

\* monitor_node_drain: one turn of the loop, from node_details to `break` or
\* to the end of the loop body.
MonitorFetch ==
    /\ pc = "monitor_node_drain"
    /\ Len(MonitorReqs) < MaxFetches
    /\ \E a \in MonitorAnswers :
        LET fetched == execute_indexed_request(a.http)
            query == add_blocking_requests(wait_index, Some(wait_timeout)) IN
        /\ Send(NomadReq("monitor", "node_details", node_id, query.index, query.wait,
                         None),
                a.http, fetched.ok)
        /\ elapsed' = elapsed + a.held
        /\ IF MonitorFetchFails(fetched) THEN
                /\ MonitorReturn(fetched)
                /\ UNCHANGED <<mon_node, strategy, strategy_changed, wait_index>>
           ELSE IF MonitorBreaks(fetched.v) THEN
                /\ mon_node' = fetched.v
                /\ MonitorReturn(Ok("unit"))
                /\ UNCHANGED <<strategy, strategy_changed, wait_index>>
           ELSE /\ mon_node' = fetched.v
                /\ strategy' = fetched.v.data.drain_strategy
                /\ strategy_changed' = TRUE
                /\ wait_index' = MonitorNextIndex(fetched.v)
                /\ UNCHANGED <<pc, result, mon_result>>
        /\ Logged(MonitorFetchLog(request', a.http, fetched))
    /\ UNCHANGED <<client, callvars, handlervars, findvars, wait_timeout>>

\* ------------------------------------------------- handler: the last steps
\* lambda_handler: complete_lifecycle_action(CONTINUE), then the result.
CompleteLifecycleAction ==
    /\ pc = "complete_lifecycle_action"
    /\ \E o \in {"transport", "ok"} :
        /\ Send(Req("complete", "complete_lifecycle_action", asg_event.instance_id,
                    None, None, <<"CONTINUE">>),
                [outcome |-> o, body |-> "ack"], o = "ok")
        /\ IF o = "ok"
           THEN Fail(Ok([instance_id |-> asg_event.instance_id, node_id |-> node.data.id]))
           ELSE Fail(Err("AsgLifecycleError", ""))
        /\ Logged(<<Line("info", "Marking lifecycle action complete", <<>>)>>
                  \o (IF o = "ok"
                      THEN <<Line("info", "Lifecycle action complete", <<>>)>>
                      ELSE <<>>))
    /\ UNCHANGED <<client, callvars, handlervars, findvars, monvars>>

Next ==
    \/ InvokeHandler
    \/ CallFindNode
    \/ CallSetNodeDrain
    \/ CallMonitor
    \/ CallPayloadNew
    \/ CallBuildRequest
    \/ FromEnvironment
    \/ NewNomadClient
    \/ GetAwsCredentials
    \/ LoginToVault
    \/ GetNomadToken
    \/ ParseEvent
    \/ FindNodes
    \/ FindNodeDetails
    \/ SetNodeEligibility
    \/ SetNodeDrain
    \/ MonitorFetch
    \/ CompleteLifecycleAction

Spec == Init /\ [][Next]_vars

TypeOK ==
    /\ pc \in {"idle", "from_environment", "new_nomad_client", "get_aws_credentials",
               "login_to_vault", "get_nomad_token", "parse_event", "nodes",
               "node_details", "set_node_eligibility", "set_node_drain",
               "monitor_node_drain", "complete_lifecycle_action", "returned"}
    /\ strategy_changed \in BOOLEAN
    /\ Len(MonitorReqs) <= MaxFetches


\* ================================================================== claims
Last(q) == q[Len(q)]
IsFindReq(r) == r.step = "find"
FindReqs == SelectSeq(reqs, IsFindReq)
Returned(r) == r # NoResult
\* a step that sent a fetch of the monitor
MonitorFetched == Len(MonitorReqs') = Len(MonitorReqs) + 1
\* the change-index an answer carries
ResponseIndex(http) == IF http.header.present THEN http.header.value ELSE 0
\* the answer is a node the client could read, change-index included
Readable(http) ==
    http.outcome = "ok" /\ (http.header.present => http.header.numeric)

\* C1: monitor_node_drain returns Ok at the first fetched node whose
\* drain_strategy is null and fetches nothing after it, whether or not a
\* strategy was seen before; the fetches are the non-null answers plus one.
C1_ReturnsAtFirstNull ==
    /\ [](Returned(mon_result) /\ mon_result.ok =>
            LET m == MonitorReqs IN
            /\ Len(m) >= 1
            /\ Last(m).ok /\ ~Last(m).draining
            /\ \A i \in 1..(Len(m) - 1) : m[i].ok /\ m[i].draining
            /\ Len(m) = Cardinality({i \in DOMAIN m : m[i].draining}) + 1)
    /\ [][MonitorFetched /\ Readable(response') /\ ~IsSome(response'.body.drain_strategy)
            => mon_result' = Ok("unit")]_vars
    /\ [][Returned(mon_result) => MonitorReqs' = MonitorReqs]_vars

C1_Witness ==
    /\ Returned(mon_result) /\ mon_result.ok
    /\ Len(MonitorReqs) = 3
    /\ strategy_changed

\* C2: the first fetch of a monitoring session carries no wait_index, every
\* later one the change-index of the answer just before it.
C2_WaitIndexIsPreviousIndex ==
    [][MonitorFetched =>
        request'.index = IF Len(MonitorReqs) = 0 THEN None
                         ELSE Some(ResponseIndex(response))]_vars

C2_Witness ==
    /\ Len(MonitorReqs) = 3
    /\ request.step = "monitor"
    /\ request.index = Some(0)
    /\ IsSome(wait_index) /\ Unwrap(wait_index) = MaxIndex

\* C3: a node that is Down with a drain strategy never ends monitoring, the
\* monitor goes on to the next fetch; it returns Ok only on an answer without
\* drain strategy, whatever the status.
C3_DownDoesNotEndMonitoring ==
    /\ [][MonitorFetched /\ Readable(response')
            /\ response'.body.status = "Down" /\ IsSome(response'.body.drain_strategy)
            => pc' = "monitor_node_drain" /\ ~Returned(mon_result') /\ ~Returned(result')]_vars
    /\ [][~Returned(mon_result) /\ Returned(mon_result') /\ mon_result'.ok
            => Readable(response') /\ ~IsSome(response'.body.drain_strategy)]_vars

C3_Witness ==
    /\ pc = "monitor_node_drain"
    /\ mon_node.data.status = "Down"
    /\ IsSome(mon_node.data.drain_strategy)
    /\ elapsed > 0

\* C4 (as claimed): monitor_node_drain returns when the drain strategy clears
\* or when the caller's wait_timeout has elapsed, whichever comes first, so
\* it is never still monitoring once the timeout has elapsed.
C4_ReturnsWhenTimeoutElapses ==
    pc = "monitor_node_drain" => elapsed < wait_timeout

\* C4 (amended): monitor_node_drain returns only on an answer without drain
\* strategy (Ok) or on a failed fetch (Err); a long-poll that ran its full
\* wait_timeout without a change leaves it monitoring.
C4_TimeoutOnlyEndsOnePoll ==
    /\ [][elapsed' > elapsed
            => pc' = "monitor_node_drain" /\ ~Returned(mon_result') /\ ~Returned(result')]_vars
    /\ [][~Returned(mon_result) /\ Returned(mon_result')
            => \/ mon_result'.ok /\ Readable(response')
                  /\ ~IsSome(response'.body.drain_strategy)
               \/ ~mon_result'.ok /\ ~Readable(response')]_vars

C4_Witness ==
    /\ pc = "monitor_node_drain"
    /\ elapsed >= 2 * wait_timeout
    /\ Len(MonitorReqs) = 3


\* the error execute_indexed_request makes of an answer it cannot use
FetchError(http) ==
    IF http.outcome = "transport" THEN Err("ReqwestError", "")
    ELSE IF http.outcome = "parse" THEN Err("ParseError", "")
    ELSE Err("ParseIntError", "")

\* C5: in the monitor, a long-poll answer that reports no change (same
\* change-index, same non-null drain strategy) is no error and is followed by
\* another fetch; a fetch that fails in transport or parsing ends
\* monitor_node_drain at once with that error, without retry or further fetch.
C5_NoChangeGoesOnFailureEnds ==
    /\ [][MonitorFetched /\ Readable(response') /\ IsSome(request'.index)
            /\ ResponseIndex(response') = Unwrap(request'.index)
            /\ IsSome(strategy) /\ response'.body.drain_strategy = strategy
            => pc' = "monitor_node_drain" /\ ~Returned(mon_result') /\ ~Returned(result')]_vars
    /\ [][MonitorFetched /\ ~Readable(response')
            => /\ mon_result' = FetchError(response')
               /\ pc' = "returned"
               /\ result' = FetchError(response')]_vars
    /\ [][Returned(mon_result) /\ ~mon_result.ok => reqs' = reqs]_vars

C5_Witness ==
    /\ Returned(mon_result) /\ ~mon_result.ok
    /\ pc = "returned"
    /\ elapsed > 0
    /\ Len(MonitorReqs) = 3

\* C6: no call to Vault or Nomad is retried and every failure is terminal:
\* when an exchange fails, the operation that made it returns the error at
\* once and sends nothing more, also for a node-details fetch made inside
\* find_node_by_instance_id.
C6_FailureIsTerminal ==
    \A i \in DOMAIN reqs :
        ~reqs[i].ok => /\ i = Len(reqs)
                       /\ pc = "returned"
                       /\ ~result.ok

StepRank(step) ==
    CASE step = "token" -> 1
      [] step = "find" -> 2
      [] step = "eligibility" -> 3
      [] step = "drain" -> 4
      [] step = "monitor" -> 5
      [] step = "complete" -> 6

Sent(op) == {i \in DOMAIN reqs : reqs[i].op = op}

\* C7: a run of the handler makes its external calls in the order token,
\* find node, set Ineligible, drain, monitor; a step starts only after the
\* one before it succeeded; eligibility and drain are two requests, and the
\* drain is never sent unless the eligibility request succeeded.
C7_HandlerStepsInOrder ==
    entry = "lambda_handler" =>
        /\ \A i, j \in DOMAIN reqs : i < j => StepRank(reqs[i].step) <= StepRank(reqs[j].step)
        /\ \A i \in DOMAIN reqs :
            (i > 1 /\ reqs[i].step # reqs[i - 1].step) =>
                /\ StepRank(reqs[i].step) = StepRank(reqs[i - 1].step) + 1
                /\ reqs[i - 1].ok
                /\ reqs[i - 1].step = "find" => reqs[i - 1].op = "node_details"
                /\ reqs[i - 1].step = "monitor" => ~reqs[i - 1].draining
        /\ \A i \in DOMAIN reqs :
            (reqs[i].step = "token" /\ i < Len(reqs)) => reqs[i].ok
        /\ Cardinality(Sent("eligibility")) <= 1
        /\ Cardinality(Sent("drain")) <= 1
        /\ \A j \in Sent("drain") :
            \E i \in Sent("eligibility") : i = j - 1 /\ reqs[i].ok
        /\ \A j \in Sent("eligibility") :
            /\ IsSome(client)
            /\ node.data.instance = Some(asg_event.instance_id)
            /\ reqs[j].node = node.data.id

C7_Witness ==
    /\ entry = "lambda_handler"
    /\ pc = "complete_lifecycle_action"
    /\ Cardinality(Sent("vault_login")) = 1
    /\ Cardinality(Sent("vault_nomad_creds")) = 1
    /\ Len(MonitorReqs) = 2

\* C8: the lifecycle completion (CONTINUE) is called at most once per run and
\* only after the monitor returned Ok; a run in which configuration,
\* authentication, lookup, eligibility, drain or monitoring fails never calls
\* it and yields no run result.
C8_CompletionOnlyAfterDrain ==
    entry = "lambda_handler" =>
        /\ Cardinality(Sent("complete_lifecycle_action")) <= 1
        /\ \A i \in Sent("complete_lifecycle_action") :
            /\ Returned(mon_result) /\ mon_result.ok
            /\ \A j \in 1..(i - 1) : reqs[j].step \in {"token", "eligibility", "drain"} => reqs[j].ok
            /\ Sent("eligibility") # {} /\ Sent("drain") # {}
            /\ node.data.instance = Some(asg_event.instance_id)
        /\ (pc = "returned" /\ result.ok) =>
            \E i \in Sent("complete_lifecycle_action") : reqs[i].ok
        /\ (pc = "returned" /\ ~result.ok /\ result.e.kind # "AsgLifecycleError") =>
            Sent("complete_lifecycle_action") = {}

C8_Witness ==
    /\ entry = "lambda_handler"
    /\ pc = "returned"
    /\ result.ok
    /\ Cardinality(Sent("complete_lifecycle_action")) = 1


\* the listed nodes that are Ready, and those of them whose details carry the
\* wanted instance id
ReadyNodes(c) == {k \in DOMAIN c : c[k].status = "Ready"}
ReadyCarriers(c, wanted) == {k \in ReadyNodes(c) : c[k].instance = Some(wanted)}
\* find_node_by_instance_id has returned, its listing had been read, and the
\* scheduler's nodes are still at hand
FindDone ==
    /\ pc = "returned"
    /\ reqs # <<>> /\ Last(reqs).step = "find"
    /\ FindReqs[1].ok
\* the node ids of the details fetches of the lookup, in the order sent
RECURSIVE NodesOf(_)
NodesOf(q) == IF q = <<>> THEN <<>> ELSE <<Head(q).node>> \o NodesOf(Tail(q))
FetchedIds == NodesOf(Tail(FindReqs))
RECURSIVE ReadyIdsFrom(_, _)
ReadyIdsFrom(c, k) ==
    IF k > Len(c) THEN <<>>
    ELSE (IF c[k].status = "Ready" THEN <<c[k].id>> ELSE <<>>) \o ReadyIdsFrom(c, k + 1)
\* a step that sent a details fetch of the lookup
FindFetched ==
    Len(reqs') = Len(reqs) + 1 /\ request'.step = "find" /\ request'.op = "node_details"

\* C9: find_node_by_instance_id asks for the details of Ready nodes only,
\* never of a node listed as Initializing or Down; and when exactly one Ready
\* node carries the instance id, the details it returns are that node's.
C9_DetailsOnlyForReadyNodes ==
    /\ [][FindFetched =>
            \E k \in ReadyNodes(cluster) : cluster[k].id = request'.node]_vars
    /\ [][pc = "node_details" /\ pc' = "set_node_eligibility" =>
            \E k \in ReadyCarriers(cluster, instance_id) : node'.data = Details(cluster[k])]_vars
    /\ [](FindDone /\ result.ok =>
            \E k \in ReadyCarriers(cluster, instance_id) : result.v.data = Details(cluster[k]))
    /\ [](FindDone /\ Cardinality(ReadyCarriers(cluster, instance_id)) = 1
            /\ (\A i \in DOMAIN FindReqs : FindReqs[i].ok)
            => result.ok)

C9_Witness ==
    /\ FindDone /\ result.ok
    /\ Cardinality(ReadyCarriers(cluster, instance_id)) = 1
    /\ Len(cluster) = MaxNodes
    /\ cluster[1].status = "Down" /\ cluster[1].instance = Some(instance_id)
    /\ result.v.data.id = cluster[MaxNodes].id

\* C10: when no Ready node carries the requested instance id (attribute
\* missing or different), find_node_by_instance_id returns NodeNotFound with
\* exactly that instance id, after one details fetch for every Ready node of
\* the listing.
C10_NotFoundAfterEveryReadyNode ==
    /\ (FindDone /\ ReadyCarriers(cluster, instance_id) = {}) =>
            /\ result = Err("NomadNodeNotFound", instance_id)
            /\ FetchedIds = ReadyIdsFrom(cluster, 1)
    /\ (FindDone /\ ~result.ok /\ result.e.kind = "NomadNodeNotFound") =>
            /\ result.e.arg = instance_id
            /\ FetchedIds = ReadyIdsFrom(cluster, 1)
    /\ pc = "node_details" => ~Returned(result)

C10_Witness ==
    /\ FindDone
    /\ result = Err("NomadNodeNotFound", instance_id)
    /\ Len(FetchedIds) = 2
    /\ \E k \in ReadyNodes(cluster) : cluster[k].instance = None
    /\ \E k \in ReadyNodes(cluster) : IsSome(cluster[k].instance)

\* a step in which the answer to the request op arrived
Answered(op) == Len(reqs') = Len(reqs) + 1 /\ request'.op = op
\* the error strings of an envelope, joined as the operator sees them
ErrorText(errors) ==
    CASE errors = <<"x">> -> "x"
      [] errors = <<"x", "y">> -> "x; y"
      [] errors = <<"y", "x">> -> "y; x"

\* C11: the login classifies every parsed answer into one outcome: an error
\* envelope gives InvalidVaultResponse with the error strings joined by "; "
\* in their order; a success envelope with auth gives a client whose token is
\* auth.client_token; a success envelope without auth gives
\* InvalidVaultResponse and no client.
C11_LoginClassifiesResponse ==
    [][Answered("vault_login") /\ response'.outcome = "ok" =>
        LET r == response'.body IN
        /\ r.is_error =>
            /\ result' = Err("InvalidVaultResponse", ErrorText(r.errors))
            /\ vault_client' = None
        /\ ~r.is_error /\ IsSome(r.auth) =>
            /\ vault_client' = Some([address |-> Unwrap(Unwrap(config).vault_address),
                                     token |-> Unwrap(r.auth)])
            /\ Returned(result') => result'.e.kind = "MissingConfiguration"
        /\ ~r.is_error /\ ~IsSome(r.auth) =>
            /\ result' = Err("InvalidVaultResponse", "Missing authentication data")
            /\ vault_client' = None]_vars

C11_Witness ==
    /\ request.op = "vault_login"
    /\ response.outcome = "ok" /\ response.body.errors = <<"x", "y">>
    /\ result = Err("InvalidVaultResponse", "x; y")

\* the parsed envelope carries data with the key secret_id
HasSecretId(r) ==
    /\ ~r.is_error
    /\ IsSome(r.data)
    /\ "secret_id" \in DOMAIN Unwrap(r.data)

\* C12: get_nomad_token returns Ok(token) exactly when the answer is a success
\* envelope whose data holds secret_id, and the token is that value; a success
\* envelope without data or without secret_id, and every error envelope, give
\* InvalidVaultResponse; an answer that is no envelope gives no token either.
C12_TokenIffSecretId ==
    [][Answered("vault_nomad_creds") =>
        IF response'.outcome = "ok" /\ HasSecretId(response'.body)
        THEN /\ client' = NomadClientNew(Some(Unwrap(response'.body.data)["secret_id"]))
             /\ ~Returned(result')
        ELSE /\ client' = None
             /\ Returned(result') /\ ~result'.ok
             /\ response'.outcome = "ok" => result'.e.kind = "InvalidVaultResponse"]_vars

C12_Witness ==
    /\ request.op = "vault_nomad_creds"
    /\ response.outcome = "ok" /\ HasSecretId(response.body)
    /\ client = NomadClientNew(Some("nomad-token-vault"))

\* the latest answer parsed and came without X-Nomad-Index header
NoIndexHeader(http) == http.outcome = "ok" /\ ~http.header.present

\* C13: a node list or node details answer whose body parses and that has no
\* X-Nomad-Index header is accepted with index 0, never an error; in the
\* monitor the fetch after such an answer carries index 0.
C13_AbsentHeaderIsIndexZero ==
    /\ [][(Answered("nodes") \/ Answered("node_details")) /\ NoIndexHeader(response') =>
            /\ Last(reqs').ok
            /\ request'.step = "monitor" =>
                /\ mon_node'.index = 0
                /\ pc' = "monitor_node_drain" => wait_index' = Some(0)
            /\ request'.step = "find" /\ node' # node => node'.index = 0
            /\ request'.step = "find" /\ result' # result /\ result'.ok =>
                result'.v.index = 0]_vars
    /\ [][MonitorFetched /\ Len(MonitorReqs) > 0 /\ NoIndexHeader(response) =>
            request'.index = Some(0)]_vars

C13_Witness ==
    /\ pc = "monitor_node_drain"
    /\ Len(MonitorReqs) = 2
    /\ NoIndexHeader(response)
    /\ request.index = Some(MaxIndex)
    /\ wait_index = Some(0)

\* C14 (as claimed): every read that carries a wait parameter is sent by a
\* client whose own timeout is strictly greater than that wait, whatever
\* wait_timeout the caller supplied.
C14_ClientTimeoutExceedsWait ==
    request.op \in {"nodes", "node_details"} /\ IsSome(request.wait)
        => from_secs(Unwrap(request.wait)) < Unwrap(client).timeout

\* the token values the run holds: of the scheduler client, of the Vault
\* client and of the configuration
TokensInPlay ==
    (IF IsSome(client) /\ IsSome(Unwrap(client).token)
     THEN {Unwrap(Unwrap(client).token)} ELSE {})
    \cup (IF IsSome(vault_client) THEN {Unwrap(vault_client).token} ELSE {})
    \cup (IF IsSome(config)
          THEN (IF IsSome(Unwrap(config).nomad_token)
                THEN {Unwrap(Unwrap(config).nomad_token)} ELSE {})
               \cup (IF IsSome(Unwrap(config).vault_token)
                     THEN {Unwrap(Unwrap(config).vault_token)} ELSE {})
          ELSE {})
\* the texts rendered into the lines of the log
LoggedTexts == UNION {{log[i].args[j] : j \in DOMAIN log[i].args} : i \in DOMAIN log}

\* C15 (as claimed): no Vault token and no Nomad token is ever part of a log
\* line, debug-level dumps of requests and response bodies included, or of a
\* returned error's text.
C15_NoTokenInLogOrError ==
    /\ LoggedTexts \cap TokensInPlay = {}
    /\ Returned(result) /\ ~result.ok => result.e.arg \notin TokensInPlay

\* the contents a Secret of a run can have
SecretContents ==
    {"", "nomad-token-cfg", "vault-token-cfg", "vault-token-login", "nomad-token-vault",
     "nomad-token-usr"}
\* the log line that dumps the configuration
ConfigDump == log[1].args

\* C16: Display and Debug of a Secret are the marker "***" whatever the
\* content, so two Secrets render the same, in the dump of the configuration
\* and in the dump of a Vault answer; as_str / deref give back the content
\* unchanged, which is what the token headers are made of.
C16_SecretRendersAsMarker ==
    /\ \A s \in SecretContents : SecretFmt(s) = "***" /\ SecretDeref(s) = s
    /\ pc = "new_nomad_client" =>
        /\ ConfigDump[2] = IF IsSome(Unwrap(config).nomad_token) THEN "***" ELSE "None"
        /\ ConfigDump[3] = IF IsSome(Unwrap(config).vault_token) THEN "***" ELSE "None"
    /\ request.op = "vault_login" /\ response.outcome = "ok" /\ IsSome(response.body.auth)
        => \E i \in DOMAIN log :
                /\ log[i].msg = "Deserialized body: {:#?}"
                /\ Head(log[i].args) = "***"
    /\ request.op = "vault_nomad_creds" =>
        Unwrap(request.header).value = Unwrap(vault_client).token

C16_Witness ==
    /\ pc = "new_nomad_client"
    /\ Unwrap(config).nomad_token = Some("nomad-token-cfg")
    /\ Unwrap(config).vault_token = Some("vault-token-cfg")
    /\ ConfigDump[2] = "***" /\ ConfigDump[3] = "***"


\* the payload a finished call of VaultAwsAuthIamPayload::new returned
PayloadReturned == entry = "VaultAwsAuthIamPayload::new" /\ pc = "returned"
\* the step is the handler's login, whose request carries the payload
LoginSent == Answered("vault_login")
\* the header names the signature of payload p covers
SignedHeaders(p) == p.iam_request_headers["authorization"][1].signed_headers
HeaderSupplied(a) == IsSome(a.header_value) /\ Unwrap(a.header_value) # ""
AntiReplayAsSupplied(a, p) ==
    LET name == "x-vault-aws-iam-server-id" IN
    IF HeaderSupplied(a)
    THEN /\ name \in DOMAIN p.iam_request_headers
         /\ p.iam_request_headers[name] = <<Unwrap(a.header_value)>>
         /\ IAM_SERVER_ID_HEADER \notin DOMAIN p.iam_request_headers
         /\ name \in SignedHeaders(p)
    ELSE /\ name \notin DOMAIN p.iam_request_headers
         /\ IAM_SERVER_ID_HEADER \notin DOMAIN p.iam_request_headers

\* C17: the payload of VaultAwsAuthIamPayload::new has the anti-replay value
\* under the lower-cased name x-vault-aws-iam-server-id, as a one-element
\* list holding that value, exactly when a non-empty value was supplied, and
\* then the name is among the signed headers; for None and for the empty
\* string the name is absent.  This holds for the payload a library caller
\* gets and for the one the handler's login sends.
C17_AntiReplayHeaderIffSupplied ==
    /\ [](PayloadReturned => AntiReplayAsSupplied(Unwrap(payload_args), result.v))
    /\ [][LoginSent =>
            AntiReplayAsSupplied(Unwrap(payload_args), request'.body.aws_payload)]_vars

\* C17 witness: a caller supplied vault.example.com with a named region and
\* got a payload carrying it.
C17_Witness ==
    /\ PayloadReturned
    /\ Unwrap(payload_args).header_value = Some("vault.example.com")
    /\ IsSome(Unwrap(payload_args).region)
    /\ result.v.iam_request_headers["x-vault-aws-iam-server-id"] = <<"vault.example.com">>


\* what every payload has, whatever the credentials, header value and region
PayloadFixedFields(p) ==
    /\ p.iam_http_request_method = "POST"
    /\ p.iam_request_body = base64_encode("Action=GetCallerIdentity&Version=2011-06-15")
    /\ "authorization" \in DOMAIN p.iam_request_headers
\* the URL of the regional endpoint of the region called name
RegionalUrl(name) == base64_encode("https://sts." \o name \o ".amazonaws.com/")
GlobalUrl == base64_encode("https://sts.amazonaws.com/")
PayloadAsClaimed(a, p) ==
    /\ PayloadFixedFields(p)
    /\ p.iam_request_url = IF IsSome(a.region) THEN RegionalUrl(Unwrap(a.region).name)
                           ELSE GlobalUrl
PayloadByRegion(a, p) ==
    /\ PayloadFixedFields(p)
    /\ p.iam_request_url =
         IF ~IsSome(a.region) THEN GlobalUrl
         ELSE IF Unwrap(a.region).kind = "named" THEN RegionalUrl(Unwrap(a.region).name)
         ELSE base64_encode("https://" \o Unwrap(a.region).endpoint \o "/")

NomadOps == {"nodes", "node_details", "eligibility", "drain"}
\* the step sent a request of the scheduler client
NomadSent == Len(reqs') = Len(reqs) + 1 /\ request'.op \in NomadOps
\* the header a client must put on its requests
TokenHeaderOf(c) ==
    IF IsSome(c.token)
    THEN Some([name |-> "X-Nomad-Token", value |-> Unwrap(c.token)])
    ELSE None

\* C19: every request of the scheduler client (node list, node details,
\* eligibility, drain) carries the header X-Nomad-Token with the client's
\* token when the client has one and no such header when it has none, and
\* once a client exists no step changes its address or token.
C19_TokenHeaderOnEveryRequest ==
    /\ [][NomadSent => IsSome(client) /\ request'.header = TokenHeaderOf(Unwrap(client))]_vars
    /\ [][IsSome(client) => client' = client]_vars

\* C19 witness: a client with a token has sent its drain request, with the
\* token as X-Nomad-Token header.
C19_Witness ==
    /\ request.op = "drain"
    /\ IsSome(client)
    /\ IsSome(Unwrap(client).token)
    /\ request.header = Some([name |-> "X-Nomad-Token",
                              value |-> Unwrap(Unwrap(client).token)])


\* the step sent the drain POST of set_node_drain
DrainSent == Answered("drain")

\* C20: the drain POST of set_node_drain carries the caller's DrainSpec
\* unchanged when one is given and the default DrainSpec, deadline 3600 s and
\* ignore_system_jobs false, when none is given; the handler's drain POST
\* always carries deadline 600 s and ignore_system_jobs false.
C20_DrainSpecAsGivenOrDefault ==
    [][DrainSent =>
        /\ request'.body.NodeID = node_id
        /\ IsSome(drain_spec) =>
             /\ request'.body.DrainSpec.Deadline = Unwrap(drain_spec).deadline
             /\ request'.body.DrainSpec.IgnoreSystemJobs = Unwrap(drain_spec).ignore_system_jobs
        /\ ~IsSome(drain_spec) =>
             request'.body.DrainSpec = [Deadline |-> 3600, IgnoreSystemJobs |-> FALSE]
        /\ entry = "lambda_handler" =>
             request'.body.DrainSpec = [Deadline |-> 600, IgnoreSystemJobs |-> FALSE]]_vars

\* C20 witness: a library caller gave no DrainSpec and the drain POST carried
\* the default one.
C20_Witness ==
    /\ entry = "set_node_drain"
    /\ request.op = "drain"
    /\ ~IsSome(drain_spec)
    /\ request.body.DrainSpec.Deadline = 3600


\* the first Ready node of c, in listing order, that carries the wanted
\* instance id
FirstCarrier(c, wanted) ==
    CHOOSE k \in ReadyCarriers(c, wanted) : \A j \in ReadyCarriers(c, wanted) : k <= j
\* q is a prefix of s
IsPrefix(q, s) == Len(q) <= Len(s) /\ \A i \in DOMAIN q : q[i] = s[i]

\* C21: find_node_by_instance_id fetches the details of the Ready nodes one
\* at a time in listing order, and when it returns a node, that node is the
\* first Ready node of the listing whose instance-id attribute is the
\* requested id, its attribute is the requested id, and no details were
\* fetched for a node listed after it.
C21_FirstMatchWins ==
    /\ [](FindDone => IsPrefix(FetchedIds, ReadyIdsFrom(cluster, 1)))
    /\ [](FindDone /\ result.ok =>
            /\ result.v.data.instance = Some(instance_id)
            /\ result.v.data = Details(cluster[FirstCarrier(cluster, instance_id)])
            /\ Last(FetchedIds) = result.v.data.id)
    /\ [][pc = "node_details" /\ pc' = "set_node_eligibility" =>
            /\ node'.data = Details(cluster[FirstCarrier(cluster, instance_id)])
            /\ request'.node = node'.data.id]_vars


\* every fetch of the monitor so far was answered with a node that has a
\* drain strategy
AllDraining == \A i \in DOMAIN MonitorReqs : MonitorReqs[i].ok /\ MonitorReqs[i].draining

\* C22: the monitor's loop has no cap of its own: a fetch answered with a
\* non-null drain_strategy never ends the monitor, whatever wait_timeout is;
\* while every fetch so far was answered so, the monitor has not returned and
\* stands at its next fetch, which it can send.
C22_NoIterationCap ==
    /\ [][MonitorFetched /\ Readable(response') /\ IsSome(response'.body.drain_strategy)
            => /\ pc' = "monitor_node_drain"
               /\ ~Returned(mon_result') /\ ~Returned(result')]_vars
    /\ [](MonitorReqs # <<>> /\ AllDraining =>
            /\ pc = "monitor_node_drain"
            /\ ~Returned(mon_result)
            /\ (Len(MonitorReqs) < MaxFetches => ENABLED MonitorFetch))

\* C22 witness: with a wait_timeout of the caller's, MaxFetches fetches in a
\* row were answered with a drain strategy and the monitor is still in its
\* loop.
C22_Witness ==
    /\ entry = "monitor_node_drain"
    /\ wait_timeout = 1500
    /\ Len(MonitorReqs) = MaxFetches
    /\ AllDraining
    /\ pc = "monitor_node_drain"


\* the lines of l whose text is msg
HasLine(l, msg) == \E i \in DOMAIN l : l[i].msg = msg
\* the step is the monitor's `break`: its fetch was answered with a null
\* drain_strategy
MonitorBroke ==
    MonitorFetched /\ Readable(response') /\ ~IsSome(response'.body.drain_strategy)
\* an earlier fetch of this session was answered with a drain strategy
SawStrategy == \E i \in DOMAIN MonitorReqs : MonitorReqs[i].ok /\ MonitorReqs[i].draining
ClearedText == "Node {} has has marked all allocations for migration"
NeverStartedText == "No drain strategy set for node {}"

\* C23: when the monitor ends successfully it reports 'cleared' exactly when
\* strategy_changed is true, which is exactly when an earlier fetch of the
\* session had a drain strategy, and 'never started' exactly when the first
\* fetch already had none; it reports one of the two, and strategy_changed
\* never goes back from true to false.
C23_ClearedIffStrategySeen ==
    /\ [][MonitorBroke =>
            /\ HasLine(log', ClearedText) = strategy_changed
            /\ HasLine(log', ClearedText) = SawStrategy
            /\ HasLine(log', NeverStartedText) = (MonitorReqs = <<>>)
            /\ HasLine(log', NeverStartedText) # HasLine(log', ClearedText)
            /\ HasLine(log', "Done monitoring drain for Node ID {}")
            /\ strategy_changed' = strategy_changed]_vars
    /\ [][strategy_changed => strategy_changed']_vars
    /\ [][~MonitorBroke =>
            ~HasLine(log', ClearedText) /\ ~HasLine(log', NeverStartedText)]_vars

\* C23 witness: a monitor that saw a strategy twice has reported 'cleared'.
C23_Witness ==
    /\ Returned(mon_result) /\ mon_result.ok
    /\ Len(MonitorReqs) = 3
    /\ strategy_changed
    /\ HasLine(log, ClearedText)
    /\ pc = "returned"


UpdatedText == "Node {} drain updated: {:#?}"
\* the step is a turn of the monitor whose fetch had a drain strategy
MonitorSawStrategy ==
    MonitorFetched /\ Readable(response') /\ IsSome(response'.body.drain_strategy)
\* the drain strategy of the previous fetch of the session, None before the
\* first one
PreviousStrategy == IF MonitorReqs = <<>> THEN None ELSE mon_node.data.drain_strategy

\* C24: a turn of the monitor writes the 'drain updated' line, with the new
\* strategy, exactly when its fetch had a drain strategy that differs from
\* the one of the previous fetch or is the first of the session; the same
\* strategy twice in a row writes no further line; no other step writes the
\* line, and with or without it the loop goes on to its next fetch.
C24_UpdateLineIffStrategyDiffers ==
    /\ [][MonitorSawStrategy =>
            /\ HasLine(log', UpdatedText) = (response'.body.drain_strategy # PreviousStrategy)
            /\ \A i \in DOMAIN log' :
                 log'[i].msg = UpdatedText =>
                    log'[i].args = <<node_id, Unwrap(response'.body.drain_strategy)>>
            /\ pc' = "monitor_node_drain"
            /\ ~Returned(mon_result')]_vars
    /\ [][~MonitorSawStrategy => ~HasLine(log', UpdatedText)]_vars

\* C24 witness: the second fetch had the same strategy as the first and
\* wrote no update line, and the monitor is still in its loop.
C24_Witness ==
    /\ Len(MonitorReqs) = 2
    /\ AllDraining
    /\ strategy = Some("S1")
    /\ ~HasLine(log, UpdatedText)
    /\ pc = "monitor_node_drain"


\* a call of build_nodes_request or build_node_details_request has returned
BuildReturned == entry = "build_request" /\ pc = "returned"
\* the address of a read of client c: the node list, or the node nid
ReadAddress(c, op, nid) ==
    IF op = "nodes" THEN c.address \o "/v1/nodes" ELSE c.address \o "/v1/node/" \o nid
\* the whole seconds of a Duration, as text
WholeSeconds(d) == ToString(d \div 1000)
\* the URL of a read with the index wi and, if wt is given, the wait wt
BlockingUrl(c, op, nid, wi, wt) ==
    ReadAddress(c, op, nid) \o "?index=" \o ToString(wi)
    \o (IF IsSome(wt) THEN "&wait=" \o WholeSeconds(Unwrap(wt)) \o "s" ELSE "")

\* C25: a node list or node details request is a GET to {address}/v1/nodes
\* or {address}/v1/node/{id}; when wait_index is given it is sent as the
\* query parameter index, and wait_timeout, when given as well, after it as
\* the query parameter wait, the timeout's whole seconds followed by 's'.
\* This holds for the requests the builders return and for the fetches of
\* the monitor.
C25_IndexThenWaitInSeconds ==
    /\ [](BuildReturned =>
            LET a == Unwrap(build_args) IN
            /\ request.method = "GET"
            /\ IsSome(a.wait_index) =>
                 request.url = BlockingUrl(Unwrap(client), a.op, a.node_id,
                                           Unwrap(a.wait_index), a.wait_timeout))
    /\ [][MonitorFetched =>
            /\ request'.method = "GET"
            /\ IsSome(wait_index) =>
                 request'.url = BlockingUrl(Unwrap(client), "node_details", node_id,
                                            Unwrap(wait_index), Some(wait_timeout))]_vars

\* C25 witness: build_node_details_request("n1", Some(1), Some(1500 ms))
\* returned a GET of /v1/node/n1?index=1&wait=1s.
C25_Witness ==
    /\ BuildReturned
    /\ Unwrap(build_args).wait_timeout = Some(1500)
    /\ request.method = "GET"
    /\ request.url = "http://nomad/v1/node/n1?index=1&wait=1s"


\* the handler returned while it was resolving the scheduler token: Config is
\* still at hand
ResolutionFailed ==
    entry = "lambda_handler" /\ pc = "returned" /\ IsSome(config) /\ ~result.ok
\* the token has to come from the broker
NeedsBroker(c) == c.use_nomad_token /\ ~IsSome(c.nomad_token)
\* the fields the claim names, that c needs and lacks
LoginFields(c) ==
    IF IsSome(c.vault_token) THEN <<"vault_address">>
    ELSE <<"vault_address", "auth_path", "auth_role">>
FieldOf(c, f) ==
    CASE f = "vault_address" -> c.vault_address
      [] f = "auth_path" -> c.auth_path
      [] f = "auth_role" -> c.auth_role
      [] f = "nomad_path" -> c.nomad_path
      [] f = "nomad_role" -> c.nomad_role
IsMissing(c, f) == ~IsSome(FieldOf(c, f))
MissingOf(c, fields) == SelectSeq(fields, LAMBDA f : IsMissing(c, f))
Missing(c) == MissingOf(c, LoginFields(c) \o <<"nomad_path", "nomad_role">>)
MissingConfiguration(f) == Err("MissingConfiguration", f)
NoNomadRequest == \A i \in DOMAIN reqs : reqs[i].op \notin NomadOps
VaultSent == Answered("vault_login") \/ Answered("vault_nomad_creds")

\* C26 as stated: when the token has to come from the broker and one of
\* vault_address, auth_path, auth_role (no vault_token configured),
\* nomad_path, nomad_role is missing, the run fails with MissingConfiguration
\* naming a missing field.
C26_MissingFieldAlwaysNamed ==
    /\ pc = "returned" /\ entry = "lambda_handler" /\ IsSome(config)
    /\ NeedsBroker(Unwrap(config)) /\ Missing(Unwrap(config)) # <<>>
    => \E i \in DOMAIN Missing(Unwrap(config)) :
           result = MissingConfiguration(Missing(Unwrap(config))[i])

\* C26: with use_nomad_token true and nomad_token configured the client is
\* built with that token and no broker request is made, and broker requests
\* are only made when the token has to come from the broker; then the first
\* missing one of vault_address, auth_path, auth_role (the latter two only
\* without vault_token) fails the run with MissingConfiguration naming it,
\* before any request; a missing nomad_path or nomad_role fails the run with
\* MissingConfiguration naming the first of them once the broker client
\* exists, which is at once with a vault_token and after a successful AWS
\* login without one, a failed credentials lookup or login failing the run
\* with its own error instead; with a vault_token no AWS login request is
\* made; and no run in which resolution fails issues a scheduler request.
C26_TokenResolution ==
    /\ [][pc = "new_nomad_client" /\ Unwrap(config).use_nomad_token
            /\ IsSome(Unwrap(config).nomad_token)
          => /\ client' = NomadClientNew(Unwrap(config).nomad_token)
             /\ pc' = "parse_event"
             /\ reqs' = reqs]_vars
    /\ [][VaultSent => IsSome(config) /\ NeedsBroker(Unwrap(config))]_vars
    /\ [][Answered("vault_login") => ~IsSome(Unwrap(config).vault_token)]_vars
    /\ [](ResolutionFailed => NoNomadRequest /\ client = None)
    /\ [](ResolutionFailed /\ NeedsBroker(Unwrap(config)) =>
            LET c == Unwrap(config)
                early == MissingOf(c, LoginFields(c))
                late == MissingOf(c, <<"nomad_path", "nomad_role">>) IN
            IF early # <<>> THEN
                result = MissingConfiguration(early[1]) /\ reqs = <<>>
            ELSE IF late = <<>> THEN
                result.e.kind # "MissingConfiguration"
            ELSE IF IsSome(c.vault_token) THEN
                result = MissingConfiguration(late[1]) /\ reqs = <<>>
            ELSE IF Len(reqs) = 1 /\ reqs[1].ok THEN
                result = MissingConfiguration(late[1]) /\ reqs[1].op = "vault_login"
            ELSE /\ result.e.kind # "MissingConfiguration"
                 /\ \A i \in DOMAIN reqs : reqs[i].op = "vault_login" /\ ~reqs[i].ok)

\* C26 witness: without a vault_token and without nomad_role, the run logged
\* in to the broker and then failed with MissingConfiguration(nomad_role).
C26_Witness ==
    /\ ResolutionFailed
    /\ ~IsSome(Unwrap(config).vault_token)
    /\ IsSome(Unwrap(config).nomad_path)
    /\ result = MissingConfiguration("nomad_role")
    /\ Len(reqs) = 1 /\ reqs[1].op = "vault_login" /\ reqs[1].ok


\* req is a plain read of op and nid on client c: no index, no wait, no query
PlainRead(c, req, op, nid) ==
    /\ req.method = "GET"
    /\ req.index = None /\ req.wait = None
    /\ req.url = ReadAddress(c, op, nid)

\* C27: wait is only sent together with index: a read built without
\* wait_index has neither query parameter, with or without wait_timeout; so
\* the first fetch of a monitoring session is a plain GET, every later fetch
\* carries index and wait, and the reads of the lookup are plain.
C27_WaitOnlyWithIndex ==
    /\ [](BuildReturned /\ ~IsSome(Unwrap(build_args).wait_index) =>
            PlainRead(Unwrap(client), request, Unwrap(build_args).op,
                      Unwrap(build_args).node_id))
    /\ [](request.op \in {"nodes", "node_details"} =>
            (IsSome(request.wait) => IsSome(request.index)))
    /\ [][MonitorFetched =>
            IF MonitorReqs = <<>>
            THEN PlainRead(Unwrap(client), request', "node_details", node_id)
            ELSE /\ request'.index = wait_index /\ IsSome(wait_index)
                 /\ request'.wait = Some(as_secs(wait_timeout))]_vars
    /\ [][Len(reqs') = Len(reqs) + 1 /\ request'.step = "find" =>
            PlainRead(Unwrap(client), request', request'.op, request'.node)]_vars

\* C27 witness: build_node_details_request without wait_index but with a
\* wait_timeout returned a request without query.
C27_Witness ==
    /\ BuildReturned
    /\ Unwrap(build_args).op = "node_details"
    /\ ~IsSome(Unwrap(build_args).wait_index)
    /\ IsSome(Unwrap(build_args).wait_timeout)
    /\ request.url = "http://nomad/v1/node/n1"


\* the handler has returned from a run whose event names another transition
\* than InstanceTerminating
OtherTransitionRun ==
    /\ entry = "lambda_handler" /\ pc = "returned"
    /\ event.parses /\ event.detail.lifecycle_transition # "InstanceTerminating"
NoCompletionCall == \A i \in DOMAIN reqs : reqs[i].op # "complete_lifecycle_action"
UnexpectedLifecycleTransition == Err("UnexpectedLifecycleTransition", "")

\* C28 as stated: a run whose event names another transition than
\* InstanceTerminating fails with UnexpectedLifecycleTransition and makes no
\* scheduler request and no lifecycle-completion call.
C28_OtherTransitionAlwaysRejected ==
    OtherTransitionRun =>
        result = UnexpectedLifecycleTransition /\ NoNomadRequest /\ NoCompletionCall

\* C28: a run whose event names another transition than InstanceTerminating
\* fails without a scheduler request or a lifecycle-completion call; the
\* transition is checked once the configuration is loaded and the scheduler
\* client is built, so the run fails with UnexpectedLifecycleTransition
\* exactly when those steps succeeded, and with their error when they did
\* not.
C28_OtherTransitionRejected ==
    /\ [](OtherTransitionRun =>
            /\ ~result.ok
            /\ NoNomadRequest /\ NoCompletionCall
            /\ (result = UnexpectedLifecycleTransition) = IsSome(client))
    /\ [][pc = "parse_event" /\ event.parses
            /\ event.detail.lifecycle_transition # "InstanceTerminating"
          => /\ result' = UnexpectedLifecycleTransition
             /\ pc' = "returned"
             /\ reqs' = reqs]_vars

\* C28 witness: a run for an InstanceLaunching event took its token from the
\* broker and then failed with UnexpectedLifecycleTransition.
C28_Witness ==
    /\ OtherTransitionRun
    /\ result = UnexpectedLifecycleTransition
    /\ Len(reqs) = 2 /\ reqs[2].op = "vault_nomad_creds"


IsDrainReq(r) == r.op = "drain"
DrainReqs == SelectSeq(reqs, IsDrainReq)
IsDetailsReq(r) == r.op = "node_details"
\* set_node_drain, called by a library user, has returned
DrainCallReturned == entry = "set_node_drain" /\ pc = "returned"

\* C29: set_node_drain sends exactly one drain POST.  With monitor = true it
\* enters the monitor, with the default wait of 300 s, only after the drain
\* answer was accepted, and returns what the monitor returns; with monitor =
\* false it returns Ok without any node_details request; when the drain POST
\* fails it returns that error and no fetch of the monitor is ever sent.
C29_DrainThenMonitor ==
    /\ [](entry = "set_node_drain" => Len(DrainReqs) <= 1)
    /\ [](DrainCallReturned =>
            /\ Len(DrainReqs) = 1 /\ reqs[1].op = "drain"
            /\ IF ~reqs[1].ok THEN ~result.ok /\ Len(reqs) = 1
               ELSE IF ~monitor THEN result = Ok("unit") /\ Len(reqs) = 1
               ELSE /\ Len(reqs) >= 2
                    /\ Returned(mon_result) /\ result = mon_result
                    /\ wait_timeout = from_secs(300))
    /\ [][MonitorFetched /\ entry \in {"set_node_drain", "lambda_handler"} =>
            /\ monitor
            /\ Len(DrainReqs) = 1 /\ DrainReqs[1].ok
            /\ wait_timeout = from_secs(300)
            /\ MonitorReqs # <<>> => request'.wait = Some(300)]_vars

\* C29 witness: set_node_drain with monitor = true sent its drain POST, then
\* two fetches of the monitor, and returned the monitor's error.
C29_Witness ==
    /\ DrainCallReturned
    /\ monitor
    /\ Len(reqs) = 3
    /\ ~result.ok /\ result = mon_result


\* the handler has returned its HandlerResult
HandlerSucceeded == entry = "lambda_handler" /\ pc = "returned" /\ result.ok
\* the exchanges of the run that name a node after the lookup
IsNodeStep(r) == r.step \in {"eligibility", "drain", "monitor"}
NodeSteps == SelectSeq(reqs, IsNodeStep)

\* C30: in a successful run of the handler, the eligibility request, the
\* drain request and every fetch of the monitor name the node that
\* find_node_by_instance_id returned for the event's instance id, and the
\* result carries that node's id and the event's instance id.
C30_OneNodeThroughoutTheRun ==
    /\ [](HandlerSucceeded =>
            /\ node.data.instance = Some(event.detail.instance_id)
            /\ Last(FindReqs).ok /\ Last(FindReqs).node = node.data.id
            /\ Len(NodeSteps) >= 3
            /\ NodeSteps[1].op = "eligibility" /\ NodeSteps[2].op = "drain"
            /\ \A i \in DOMAIN NodeSteps : NodeSteps[i].node = node.data.id
            /\ result.v = [instance_id |-> event.detail.instance_id,
                           node_id |-> node.data.id])
    /\ [][entry = "lambda_handler" /\ Len(reqs') = Len(reqs) + 1
            /\ request'.step \in {"eligibility", "drain", "monitor"}
          => /\ request'.node = node.data.id
             /\ request'.url = "http://nomad/v1/node/" \o node.data.id
                                \o (CASE request'.step = "eligibility" -> "/eligibility"
                                      [] request'.step = "drain" -> "/drain"
                                      [] OTHER -> QueryText(request'.index, request'.wait))
            ]_vars

\* C30 witness: a successful run whose node was the second one listed, with
\* two fetches of the monitor.
C30_Witness ==
    /\ HandlerSucceeded
    /\ node.data.id = "n2"
    /\ result.v.node_id = "n2" /\ result.v.instance_id = "i-1"
    /\ Len(MonitorReqs) = 2

====
